---- MODULE Spec2Model ----
(***************************************************************************)
(* A model of the emulated field engine (package emulated) and of the      *)
(* BN254 pairing (package sw_bn254) of gnark.                              *)
(*                                                                         *)
(* A circuit is built over concrete witness values, as the test engine     *)
(* does: every native variable holds a value of the native field, every    *)
(* emitted constraint is evaluated on these values, and the builder keeps  *)
(* whether all constraints emitted so far are satisfied.                   *)
(***************************************************************************)
EXTENDS Integers, Sequences, FiniteSets, TLC

VARIABLES
    fp,         \* the parameters of the emulated field
    e0,         \* the element as it was given to the build
    e,          \* the element, with the flags the calls have set
    op,         \* the last call
    arg,        \* its second operand
    ret,        \* the native values it returned
    bitsFrom,   \* the call that produced the bits held in ret
    retEl,      \* the element it returned
    reduced,    \* the loose reduction the prover gave to IsZero
    exact,      \* the modWidth flag of the last call of enforceWidth
    eff,        \* what it did to the circuit
    nRange,     \* the number of calls of AssertIsInRange on e
    nRangeCmp   \* the number of comparisons these calls emitted

fieldVars == <<fp, e0, e, op, arg, ret, bitsFrom, retEl, reduced, exact, eff, nRange, nRangeCmp>>

VARIABLES
    Lines,      \* the Lines field of every G2 point
    linesInit,  \* the Lines fields the circuit started with
    linesPre,   \* the Lines fields before the last call
    nComputed,  \* the number of runs of computeLines on every G2 point
    pop,        \* the last call of the pairing
    pP,         \* its G1 points
    pQ,         \* its G2 points
    out,        \* what it returned and emitted
    nCalls      \* the number of calls so far

pairingVars == <<Lines, linesInit, linesPre, nComputed, pop, pP, pQ, out, nCalls>>

VARIABLES
    tower,      \* the parameters of the extension tower
    gt0,        \* the element of GT as the caller built it
    gt,         \* the element of GT the caller holds
    feSafe,     \* the last run of FinalExponentiation
    feUnsafe    \* the last run of FinalExponentiationUnsafe

expVars == <<tower, gt0, gt, feSafe, feUnsafe>>

VARIABLES
    twist,      \* the parameters of the field of the twist
    g2p1,       \* the first point given to a step of the twist
    g2p2,       \* the second point
    cop,        \* the last call on the twist
    cout        \* what it returned and emitted

curveVars == <<twist, g2p1, g2p2, cop, cout>>

VARIABLES
    g2gen,      \* the g2gen field of the Pairing the caller holds
    nBuilt,     \* the number of fixed generator points built so far
    genRet,     \* the pointer the last call of generators returned
    nGen        \* the number of calls of generators so far

genVars == <<g2gen, nBuilt, genRet, nGen>>

VARIABLES
    circuit,    \* the fields of the circuit struct that is walked
    pos,        \* the next field the walk meets
    path,       \* the visibilities of the structs the walk is in
    count,      \* the LeafCount of the walk
    leaves      \* the visibility the walk gave to every leaf

schemaVars == <<circuit, pos, path, count, leaves>>

VARIABLES
    nPairs,     \* the number of pairs given to millerLoopLines
    loopPos,    \* the position its loop is at
    folds       \* the operations that have changed its accumulator

millerVars == <<nPairs, loopPos, folds>>

VARIABLES
    sparse,     \* the parameters of the tower the lines are multiplied in
    n64,        \* the number of pairs given to millerLoopLines
    k64,        \* the number of pairs folded at position 64
    res64,      \* the accumulator res
    prod64,     \* prodLines
    ref64       \* One squared and multiplied by the lines folded so far

firstVars == <<sparse, n64, k64, res64, prod64, ref64>>

VARIABLES
    hintPos,    \* the position of the loop of millerLoopAndFinalExpResult
    hintPhase,  \* the step it is at
    hintAcc,    \* the accumulator res, as a product of powers
    hintPanic   \* the panic that stopped it

hintVars == <<hintPos, hintPhase, hintAcc, hintPanic>>

VARIABLES
    g2params,   \* the group of the twist, its endomorphism and the seed
    g2Q,        \* the point given to the subgroup check
    g2op,       \* the last call of the subgroup check
    g2out       \* what it returned and emitted

g2Vars == <<g2params, g2Q, g2op, g2out>>

moreVars == <<firstVars, hintVars, g2Vars>>

restVars == <<curveVars, genVars, schemaVars, millerVars, moreVars>>

vars == <<fieldVars, pairingVars, expVars, restVars>>

\* nothing has been called on the twist
NoStep ==
    [point |-> [X |-> 0, Y |-> 0], line |-> [R0 |-> 0, R1 |-> 0],
     val |-> 0, sat |-> TRUE, ops |-> <<>>]

CurveIdle ==
    /\ twist = [q |-> 5, bTwist |-> 1]
    /\ g2p1 = [X |-> 0, Y |-> 0]
    /\ g2p2 = [X |-> 0, Y |-> 0]
    /\ cop = ""
    /\ cout = NoStep

\* the nil pointer
Nil == 0

\* NewPairing leaves g2gen nil
GenIdle ==
    /\ g2gen = Nil
    /\ nBuilt = 0
    /\ genRet = Nil
    /\ nGen = 0

\* type Visibility
Unset == "unset"
Secret == "secret"
Public == "public"

\* no circuit is walked
SchemaIdle ==
    /\ circuit = <<>>
    /\ pos = 1
    /\ path = <<>>
    /\ count = [Secret |-> 0, Public |-> 0]
    /\ leaves = <<>>

\* millerLoopLines is not followed
MillerIdle ==
    /\ nPairs = 1
    /\ loopPos = 64
    /\ folds = <<>>

\* position 64 of millerLoopLines is not followed
FirstIdle ==
    /\ sparse = [q |-> 3, xi |-> 2]
    /\ n64 = 1
    /\ k64 = 0
    /\ res64 = <<>>
    /\ prod64 = <<>>
    /\ ref64 = <<>>

\* millerLoopAndFinalExpResult is not followed
HintIdle ==
    /\ hintPos = 64
    /\ hintPhase = ""
    /\ hintAcc = <<>>
    /\ hintPanic = ""

\* no subgroup check
G2Idle ==
    /\ g2params = <<>>
    /\ g2Q = <<>>
    /\ g2op = ""
    /\ g2out = <<>>

MoreIdle == FirstIdle /\ HintIdle /\ G2Idle

RestIdle == CurveIdle /\ GenIdle /\ SchemaIdle /\ MillerIdle /\ MoreIdle

(***************************************************************************)
(* Bounds of the model.                                                    *)
(***************************************************************************)
\* largest number of limbs of an element built by the field itself
MaxLimbs == 2
\* largest overflow of an element
MaxOverflow == 1
\* largest number of calls of AssertIsInRange in one build
MaxRange == 2

(***************************************************************************)
(* The native field of the constraint system.                              *)
(***************************************************************************)
NativeModulus == 13

RECURSIVE BitLen(_)
BitLen(n) == IF n = 0 THEN 0 ELSE 1 + BitLen(n \div 2)

NativeBits == BitLen(NativeModulus)

Pow2(n) == 2 ^ n

apiAdd(a, b) == (a + b) % NativeModulus
apiSub(a, b) == (a - b) % NativeModulus
apiSub3(a, b, c) == (a - b - c) % NativeModulus
apiMul(a, b) == (a * b) % NativeModulus
apiSelect(b, i1, i2) == IF b = 1 THEN i1 ELSE i2
apiIsZero(a) == IF a % NativeModulus = 0 THEN 1 ELSE 0
apiOr(a, b) == IF a = 1 \/ b = 1 THEN 1 ELSE 0
apiAnd(a, b) == IF a = 1 /\ b = 1 THEN 1 ELSE 0

\* bits.ToBinary(v, n): the n low bits of v, first bit the least significant;
\* the decomposition is satisfiable iff v < 2^n
ToBinary(v, n) == [i \in 1..n |-> (v \div Pow2(i - 1)) % 2]
ToBinarySat(v, n) == v < Pow2(n)

RECURSIVE FromBinary(_)
FromBinary(bs) ==
    IF Len(bs) = 0 THEN 0
    ELSE apiAdd(Head(bs), apiMul(2, FromBinary(Tail(bs))))

\* the integer a bit string stands for (no reduction)
RECURSIVE BitsValue(_)
BitsValue(bs) == IF Len(bs) = 0 THEN 0 ELSE Head(bs) + 2 * BitsValue(Tail(bs))

(***************************************************************************)
(* Field parameters: BitsPerLimb, Modulus, NbLimbs.                        *)
(***************************************************************************)
FieldParams ==
    { [bits |-> 1, modulus |-> 3],
      [bits |-> 1, modulus |-> 5],
      [bits |-> 2, modulus |-> 5],
      [bits |-> 2, modulus |-> 8],
      [bits |-> 2, modulus |-> 13] }

BitsPerLimb(f) == f.bits
Modulus(f) == f.modulus
NbLimbs(f) == (BitLen(f.modulus) + f.bits - 1) \div f.bits

\* the largest overflow for which a limb still fits the native field
maxOverflow(f) == NativeBits - 2 - BitsPerLimb(f)

\* Modulus().TrailingZeroBits()
RECURSIVE TrailingZeroBits(_)
TrailingZeroBits(n) == IF n % 2 = 1 THEN 0 ELSE 1 + TrailingZeroBits(n \div 2)

(***************************************************************************)
(* Elements.                                                               *)
(***************************************************************************)
Element(limbs, overflow, internal, modReduced, const) ==
    [limbs |-> limbs, overflow |-> overflow, internal |-> internal,
     modReduced |-> modReduced, const |-> const]

\* the integer value of a sequence of limbs of the given width
RECURSIVE Recompose(_, _)
Recompose(limbs, bits) ==
    IF Len(limbs) = 0 THEN 0
    ELSE Head(limbs) + Pow2(bits) * Recompose(Tail(limbs), bits)

\* the n limbs of the given width of the integer v
Decompose(v, bits, n) == [i \in 1..n |-> (v \div Pow2(bits * (i - 1))) % Pow2(bits)]

Value(f, a) == Recompose(a.limbs, BitsPerLimb(f))

\* constantValue(a): the element is made of constant limbs
constantValue(f, a) == [val |-> Value(f, a), ok |-> a.const]

newInternalElement(limbs, overflow) == Element(limbs, overflow, TRUE, FALSE, FALSE)

\* a constant of the field: NbLimbs constant limbs
newConstElement(f, v) ==
    Element(Decompose(v, BitsPerLimb(f), NbLimbs(f)), 0, TRUE, v < Modulus(f), TRUE)

\* Zero(): the element on zero limbs
ZeroElement == Element(<<>>, 0, TRUE, TRUE, TRUE)
isStrictZero(a) == Len(a.limbs) = 0

\* Modulus() and modulusPrev() as elements
ModulusElement(f) == newConstElement(f, Modulus(f))
modulusPrev(f) == newConstElement(f, Modulus(f) - 1)

\* a witness: NbLimbs variable limbs assigned by the prover
Witness(limbs) == Element(limbs, 0, FALSE, FALSE, FALSE)

(***************************************************************************)
(* What a call does to the circuit under construction.                     *)
(*   panic   the message of the build-time abort, "" when there is none    *)
(*   sat     the constraints emitted by the call hold on the witness       *)
(*   checks  the range checks emitted, as <<value, width>>                 *)
(*   asserts the number of api.AssertIsEqual constraints emitted           *)
(*   zeros   the number of checkZero constraints emitted                   *)
(*   cmps    the number of bitwise comparisons emitted                     *)
(***************************************************************************)
NoEffect ==
    [panic |-> "", sat |-> TRUE, checks |-> <<>>, asserts |-> 0, zeros |-> 0, cmps |-> 0]
Panic(msg) == [NoEffect EXCEPT !.panic = msg]
Constraint(holds) == [NoEffect EXCEPT !.sat = holds]

\* F applied to the value of v, which is computed once
With(v, F(_)) == CHOOSE r \in {F(x) : x \in {v}} : TRUE

\* e1 and then e2; a panic stops the build
Seq2(e1, e2) ==
    IF e1.panic # "" THEN e1
    ELSE [panic |-> e2.panic, sat |-> e1.sat /\ e2.sat,
          checks |-> e1.checks \o e2.checks, asserts |-> e1.asserts + e2.asserts,
          zeros |-> e1.zeros + e2.zeros, cmps |-> e1.cmps + e2.cmps]
Then(e1, e2) == With(e1, LAMBDA x : With(e2, LAMBDA y : Seq2(x, y)))

\* f.checker.Check(v, nbBits)
Check(v, nbBits) ==
    [NoEffect EXCEPT !.sat = v < Pow2(nbBits), !.checks = <<<<v, nbBits>>>>]

\* f.api.AssertIsEqual(v, w)
apiAssertIsEqual(v, w) ==
    [NoEffect EXCEPT !.sat = ((v - w) % NativeModulus = 0), !.asserts = 1]

(***************************************************************************)
(* enforceWidth                                                            *)
(***************************************************************************)
\* the top limb checked to bitLen(modulus) mod BitsPerLimb bits
limbNbBits_Mod(f, a, modWidth, i) ==
    IF modWidth /\ i = Len(a.limbs)
    THEN BitLen(Modulus(f)) % BitsPerLimb(f)
    ELSE BitsPerLimb(f)

\* the width the i-th limb (from 1) is checked to
limbNbBits(f, a, modWidth, i) ==
    IF modWidth /\ i = Len(a.limbs)
    THEN ((BitLen(Modulus(f)) - 1) % BitsPerLimb(f)) + 1
    ELSE BitsPerLimb(f)

RECURSIVE CheckLimbs(_, _, _, _)
CheckLimbs(f, a, modWidth, i) ==
    IF i > Len(a.limbs) THEN NoEffect
    ELSE Then(Check(a.limbs[i], limbNbBits(f, a, modWidth, i)),
              CheckLimbs(f, a, modWidth, i + 1))

\* enforceWidth with constants exempted from the range checks
enforceWidth_SkipConst(f, a, modWidth) ==
    IF constantValue(f, a).ok /\ modWidth /\ Len(a.limbs) # NbLimbs(f)
    THEN Panic("constant limb width doesn't match parametrized field")
    ELSE IF constantValue(f, a).ok THEN NoEffect
    ELSE IF modWidth /\ Len(a.limbs) # NbLimbs(f)
    THEN Panic("enforcing modulus width element with inexact number of limbs")
    ELSE CheckLimbs(f, a, modWidth, 1)

enforceWidth(f, a, modWidth) ==
    IF constantValue(f, a).ok /\ modWidth /\ Len(a.limbs) # NbLimbs(f)
    THEN Panic("constant limb width doesn't match parametrized field")
    ELSE IF modWidth /\ Len(a.limbs) # NbLimbs(f)
    THEN Panic("enforcing modulus width element with inexact number of limbs")
    ELSE CheckLimbs(f, a, modWidth, 1)

\* enforceWidthConditional: constants and elements built by the field are
\* not checked again, a witness is checked to the width of the modulus
enforceWidthConditional(f, a) ==
    IF constantValue(f, a).ok
    THEN IF \E i \in 1..Len(a.limbs) : a.limbs[i] >= Pow2(BitsPerLimb(f))
         THEN Panic("constant element limb wider than emulated parameter")
         ELSE NoEffect
    ELSE IF a.internal THEN NoEffect
    ELSE enforceWidth(f, a, TRUE)

(***************************************************************************)
(* ToBits, ToBitsCanonical, FromBits                                       *)
(***************************************************************************)
\* one limb of ToBits decomposed without the carry of the limb before it
ToBitsLimb_NoCarry(f, a, i, carry) ==
    LET w == BitsPerLimb(f) + a.overflow
        v == a.limbs[i]
        limbBits == ToBinary(v, w)
        high == SubSeq(limbBits, BitsPerLimb(f) + 1, w)
    IN  [sat |-> ToBinarySat(v, w),
         low |-> SubSeq(limbBits, 1, BitsPerLimb(f)),
         high |-> high,
         carry |-> IF a.overflow > 0 THEN FromBinary(high) ELSE carry]

\* one limb of ToBits: its decomposition on BitsPerLimb + overflow bits, the
\* low bits kept for the limb and the high bits carried to the next limb
ToBitsLimb(f, a, i, carry) ==
    LET w == BitsPerLimb(f) + a.overflow
        v == apiAdd(a.limbs[i], carry)
        limbBits == ToBinary(v, w)
        high == SubSeq(limbBits, BitsPerLimb(f) + 1, w)
    IN  [sat |-> ToBinarySat(v, w),
         low |-> SubSeq(limbBits, 1, BitsPerLimb(f)),
         high |-> high,
         carry |-> IF a.overflow > 0 THEN FromBinary(high) ELSE carry]

RECURSIVE ToBitsLoop(_, _, _, _)
ToBitsLoop(f, a, i, carry) ==
    IF i > Len(a.limbs) THEN [sat |-> TRUE, bits |-> <<>>, top |-> <<>>]
    ELSE With(ToBitsLimb(f, a, i, carry), LAMBDA s :
         With(ToBitsLoop(f, a, i + 1, s.carry), LAMBDA rest :
            [sat |-> s.sat /\ rest.sat,
             bits |-> s.low \o rest.bits,
             top |-> IF i = Len(a.limbs) THEN s.high ELSE rest.top]))

\* the bits of a constant: ba.Bit(i) for i < BitsPerLimb * NbLimbs
ConstBits(f, ba) == ToBinary(ba, BitsPerLimb(f) * NbLimbs(f))

\* ToBits without the overflow bits of the top limb
ToBitsOf_NoTop(f, a, w) ==
    IF w.panic # "" THEN [eff |-> w, bits |-> <<>>]
    ELSE IF constantValue(f, a).ok
    THEN [eff |-> w, bits |-> ConstBits(f, constantValue(f, a).val)]
    ELSE IF Len(a.limbs) = 0
    THEN [eff |-> Then(w, Panic("slice bounds out of range")), bits |-> <<>>]
    ELSE With(ToBitsLoop(f, a, 1, 0), LAMBDA l :
            [eff |-> Then(w, Constraint(l.sat)), bits |-> l.bits])

ToBitsOf(f, a, w) ==
    IF w.panic # "" THEN [eff |-> w, bits |-> <<>>]
    ELSE IF constantValue(f, a).ok
    THEN [eff |-> w, bits |-> ConstBits(f, constantValue(f, a).val)]
    ELSE IF Len(a.limbs) = 0
    THEN [eff |-> Then(w, Panic("slice bounds out of range")), bits |-> <<>>]
    ELSE With(ToBitsLoop(f, a, 1, 0), LAMBDA l :
            [eff |-> Then(w, Constraint(l.sat)), bits |-> l.bits \o l.top])

ToBits(f, a) == With(enforceWidthConditional(f, a), LAMBDA w : ToBitsOf(f, a, w))

\* the limbs FromBits packs the bits into
PackLimbs(f, bs) ==
    LET nbLimbs == (Len(bs) + BitsPerLimb(f) - 1) \div BitsPerLimb(f)
    IN  [i \in 1..nbLimbs |->
            IF i < nbLimbs
            THEN FromBinary(SubSeq(bs, (i - 1) * BitsPerLimb(f) + 1, i * BitsPerLimb(f)))
            ELSE FromBinary(SubSeq(bs, (nbLimbs - 1) * BitsPerLimb(f) + 1, Len(bs)))]

FromBits(f, bs) ==
    IF Len(bs) = 0
    THEN [eff |-> Panic("index out of range"), el |-> ZeroElement]
    ELSE [eff |-> NoEffect, el |-> newInternalElement(PackLimbs(f, bs), 0)]

(***************************************************************************)
(* Reduce, Sub and checkZero                                               *)
(***************************************************************************)
\* the loose reductions the prover can give: r or r + modulus
ReduceChoices(f, a) ==
    IF constantValue(f, a).ok THEN {0}
    ELSE {k \in {0, 1} :
            (Value(f, a) % Modulus(f)) + k * Modulus(f) < Pow2(BitsPerLimb(f) * NbLimbs(f))}

Reduce(f, a, k) ==
    LET r == (Value(f, a) % Modulus(f)) + k * Modulus(f)
        el == newInternalElement(Decompose(r, BitsPerLimb(f), NbLimbs(f)), 0)
    IN  IF constantValue(f, a).ok
        THEN [eff |-> enforceWidthConditional(f, a),
              el |-> newConstElement(f, Value(f, a) % Modulus(f))]
        ELSE [eff |-> Then(enforceWidthConditional(f, a), enforceWidth(f, el, TRUE)),
              el |-> el]

\* checkZero(Sub(b, a)): b - a is a multiple of the modulus
checkZeroSub(f, b, a) ==
    [NoEffect EXCEPT !.sat = ((Value(f, b) - Value(f, a)) % Modulus(f) = 0), !.zeros = 1]

(***************************************************************************)
(* AssertIsEqual                                                           *)
(***************************************************************************)
\* fmt.Sprintf("%s != %s", ba, bb)
Mismatch(ba, bb) == ToString(ba) \o " != " \o ToString(bb)

\* AssertIsEqual comparing two constants without reducing them
AssertIsEqual_NoMod(f, a, b) ==
    LET w == Then(enforceWidthConditional(f, a), enforceWidthConditional(f, b))
        ba == constantValue(f, a)
        bb == constantValue(f, b)
    IN  IF ba.ok /\ bb.ok
        THEN IF ba.val # bb.val THEN Then(w, Panic(Mismatch(ba.val, bb.val))) ELSE w
        ELSE Then(w, checkZeroSub(f, b, a))

AssertIsEqual(f, a, b) ==
    LET w == Then(enforceWidthConditional(f, a), enforceWidthConditional(f, b))
        ba == constantValue(f, a)
        bb == constantValue(f, b)
    IN  IF ba.ok /\ bb.ok
        THEN IF ba.val % Modulus(f) # bb.val % Modulus(f)
             THEN Then(w, Panic(Mismatch(ba.val % Modulus(f), bb.val % Modulus(f))))
             ELSE w
        ELSE Then(w, checkZeroSub(f, b, a))

(***************************************************************************)
(* AssertIsLessOrEqual                                                     *)
(***************************************************************************)
\* ff(xbits, ybits): ybits with zero bits appended up to the length of xbits
ff(xbits, ybits) == ybits \o [i \in 1..(Len(xbits) - Len(ybits)) |-> 0]

\* LeqStep with an indicator that stays set once e is below a
LeqStep_KeepTie(ebit, abit, pNext) ==
    LET t == apiSelect(abit, 0, pNext)
        l == apiSub3(1, t, ebit)
    IN  [p |-> pNext, ll |-> apiMul(l, ebit)]

\* one position of the comparison: the new indicator p[i] and the asserted ll
LeqStep(ebit, abit, pNext) ==
    LET v == apiMul(pNext, ebit)
        t == apiSelect(abit, 0, pNext)
        l == apiSub3(1, t, ebit)
    IN  [p |-> apiSelect(abit, v, pNext), ll |-> apiMul(l, ebit)]

RECURSIVE LeqLoop(_, _, _, _)
LeqLoop(eBits, aBits, i, pNext) ==
    IF i = 0 THEN NoEffect
    ELSE With(LeqStep(eBits[i], aBits[i], pNext), LAMBDA s :
            Then(apiAssertIsEqual(s.ll, 0), LeqLoop(eBits, aBits, i - 1, s.p)))

\* the comparison of the bits of the two operands, padded to one length
LeqBits(eb, ab) ==
    LET longer == Len(eb) > Len(ab)
        eBits == IF longer THEN eb ELSE ff(ab, eb)
        aBits == IF longer THEN ff(eb, ab) ELSE ab
    IN  Then([NoEffect EXCEPT !.cmps = 1], LeqLoop(eBits, aBits, Len(eBits), 1))

\* AssertIsLessOrEqual without the test of the overflows
AssertIsLessOrEqual_NoTest(f, x, a) ==
    With(ToBits(f, x), LAMBDA eb :
    With(ToBits(f, a), LAMBDA ab :
        Then(eb.eff, Then(ab.eff, LeqBits(eb.bits, ab.bits)))))

AssertIsLessOrEqual(f, x, a) ==
    IF x.overflow + a.overflow > 0 THEN Panic("inputs must have 0 overflow")
    ELSE With(ToBits(f, x), LAMBDA eb :
         With(ToBits(f, a), LAMBDA ab :
            Then(eb.eff, Then(ab.eff, LeqBits(eb.bits, ab.bits)))))

(***************************************************************************)
(* AssertIsInRange, ReduceStrict                                           *)
(***************************************************************************)
\* AssertIsInRange that does not mark the element
AssertIsInRange_NoFlag(f, a) ==
    IF a.modReduced THEN [eff |-> NoEffect, el |-> a]
    ELSE With(AssertIsLessOrEqual(f, a, modulusPrev(f)), LAMBDA c : [eff |-> c, el |-> a])

AssertIsInRange(f, a) ==
    IF a.modReduced THEN [eff |-> NoEffect, el |-> a]
    ELSE With(AssertIsLessOrEqual(f, a, modulusPrev(f)), LAMBDA c :
            [eff |-> c,
             el |-> IF c.panic # "" THEN a ELSE [a EXCEPT !.modReduced = TRUE]])

\* the reduction the honest prover gives, proven to be below the modulus
ReduceStrict(f, a) ==
    With(Reduce(f, a, 0), LAMBDA r :
        IF r.eff.panic # "" THEN [eff |-> r.eff, el |-> a]
        ELSE With(AssertIsInRange(f, r.el), LAMBDA c :
                [eff |-> Then(r.eff, c.eff), el |-> c.el]))

\* ToBitsCanonical keeping the top bit for every modulus
ToBitsCanonicalOf_KeepTop(f, ca) ==
    LET nbBits == BitLen(Modulus(f))
    IN  IF ca.eff.panic # "" THEN [eff |-> ca.eff, bits |-> <<>>]
        ELSE With(ToBits(f, ca.el), LAMBDA bts :
                IF bts.eff.panic # "" THEN [eff |-> Then(ca.eff, bts.eff), bits |-> <<>>]
                ELSE [eff |-> Then(ca.eff, bts.eff), bits |-> SubSeq(bts.bits, 1, nbBits)])

\* ToBitsCanonical dropping the top bit for every modulus
ToBitsCanonicalOf_DropTop(f, ca) ==
    LET nbBits == BitLen(Modulus(f)) - 1
    IN  IF ca.eff.panic # "" THEN [eff |-> ca.eff, bits |-> <<>>]
        ELSE With(ToBits(f, ca.el), LAMBDA bts :
                IF bts.eff.panic # "" THEN [eff |-> Then(ca.eff, bts.eff), bits |-> <<>>]
                ELSE [eff |-> Then(ca.eff, bts.eff), bits |-> SubSeq(bts.bits, 1, nbBits)])

ToBitsCanonicalOf(f, ca) ==
    LET bitLen == BitLen(Modulus(f))
        nbBits == IF TrailingZeroBits(Modulus(f)) = bitLen - 1 THEN bitLen - 1 ELSE bitLen
    IN  IF ca.eff.panic # "" THEN [eff |-> ca.eff, bits |-> <<>>]
        ELSE With(ToBits(f, ca.el), LAMBDA bts :
                IF bts.eff.panic # "" THEN [eff |-> Then(ca.eff, bts.eff), bits |-> <<>>]
                ELSE [eff |-> Then(ca.eff, bts.eff), bits |-> SubSeq(bts.bits, 1, nbBits)])

ToBitsCanonical(f, a) == With(ReduceStrict(f, a), LAMBDA ca : ToBitsCanonicalOf(f, ca))

(***************************************************************************)
(* IsZero                                                                  *)
(***************************************************************************)
RECURSIVE LimbsAllZero(_, _)
LimbsAllZero(limbs, i) ==
    IF i > Len(limbs) THEN 1
    ELSE apiMul(apiIsZero(limbs[i]), LimbsAllZero(limbs, i + 1))

RECURSIVE LimbSum(_, _)
LimbSum(limbs, i) ==
    IF i > Len(limbs) THEN 0 ELSE apiAdd(limbs[i], LimbSum(limbs, i + 1))

RECURSIVE LimbsEqual(_, _, _)
LimbsEqual(plimbs, limbs, i) ==
    IF i > Len(limbs) THEN 1
    ELSE apiMul(apiIsZero(apiSub(plimbs[i], limbs[i])), LimbsEqual(plimbs, limbs, i + 1))

\* res0 with the sum taken over all limbs but the last
IsZeroRes0_NoLast(f, ca) ==
    IF Len(ca.limbs) - 1 > maxOverflow(f)
    THEN LimbsAllZero(ca.limbs, 1)
    ELSE apiIsZero(LimbSum(SubSeq(ca.limbs, 1, Len(ca.limbs) - 1), 1))

IsZeroRes0(f, ca) ==
    IF Len(ca.limbs) - 1 > maxOverflow(f)
    THEN LimbsAllZero(ca.limbs, 1)
    ELSE apiIsZero(LimbSum(ca.limbs, 1))

\* IsZero without the comparison with the limbs of the modulus
IsZero_OnlyZero(f, a, k) ==
    IF isStrictZero(a) THEN [eff |-> NoEffect, val |-> 1, ca |-> a]
    ELSE With(Reduce(f, a, k), LAMBDA r :
            IF r.eff.panic # "" THEN [eff |-> r.eff, val |-> 0, ca |-> a]
            ELSE [eff |-> r.eff, ca |-> r.el, val |-> IsZeroRes0(f, r.el)])

IsZero(f, a, k) ==
    IF isStrictZero(a) THEN [eff |-> NoEffect, val |-> 1, ca |-> a]
    ELSE With(Reduce(f, a, k), LAMBDA r :
            IF r.eff.panic # "" THEN [eff |-> r.eff, val |-> 0, ca |-> a]
            ELSE [eff |-> r.eff, ca |-> r.el,
                  val |-> apiOr(IsZeroRes0(f, r.el),
                                LimbsEqual(ModulusElement(f).limbs, r.el.limbs, 1))])

(***************************************************************************)
(* AssertIsDifferent                                                       *)
(***************************************************************************)
Max(a, b) == IF a < b THEN b ELSE a

\* Sub(a, b): the constant (a - b) mod modulus for two constants, and
\* otherwise an element of value a + padding - b, where the padding is the
\* least multiple of the modulus that is not below b
Sub(f, a, b) ==
    LET w == Then(enforceWidthConditional(f, a), enforceWidthConditional(f, b))
        ba == constantValue(f, a)
        bb == constantValue(f, b)
        padding == Modulus(f) * ((Value(f, b) + Modulus(f) - 1) \div Modulus(f))
        v == Value(f, a) + padding - Value(f, b)
        n == Max(NbLimbs(f), Max(Len(a.limbs), Len(b.limbs)))
        low == Decompose(v, BitsPerLimb(f), n - 1)
        top == v \div Pow2(BitsPerLimb(f) * (n - 1))
    IN  IF ba.ok /\ bb.ok
        THEN [eff |-> w, el |-> newConstElement(f, (ba.val - bb.val) % Modulus(f))]
        ELSE [eff |-> w,
              el |-> newInternalElement(low \o <<top>>,
                                        Max(b.overflow + 1, a.overflow) + 1)]

\* AssertIsDifferent asserting that the difference is zero
AssertIsDifferent_Same(f, a, b, k) ==
    With(Sub(f, a, b), LAMBDA diff :
        IF diff.eff.panic # "" THEN [eff |-> diff.eff, val |-> 0, ca |-> a]
        ELSE With(IsZero(f, diff.el, k), LAMBDA diffIsZero :
                [eff |-> Then(diff.eff, Then(diffIsZero.eff, apiAssertIsEqual(diffIsZero.val, 1))),
                 val |-> diffIsZero.val, ca |-> diffIsZero.ca]))

AssertIsDifferent(f, a, b, k) ==
    With(Sub(f, a, b), LAMBDA diff :
        IF diff.eff.panic # "" THEN [eff |-> diff.eff, val |-> 0, ca |-> a]
        ELSE With(IsZero(f, diff.el, k), LAMBDA diffIsZero :
                [eff |-> Then(diff.eff, Then(diffIsZero.eff, apiAssertIsEqual(diffIsZero.val, 0))),
                 val |-> diffIsZero.val, ca |-> diffIsZero.ca]))

(***************************************************************************)
(* The elements a build is given.                                          *)
(***************************************************************************)
Min(a, b) == IF a < b THEN a ELSE b

\* constants: Zero(), the values 0..modulus on NbLimbs limbs, and constants
\* written by hand on another number of limbs
Constants(f) ==
    {ZeroElement}
    \cup {newConstElement(f, v) : v \in 0..Modulus(f)}
    \cup {Element([i \in 1..n |-> 1], 0, FALSE, FALSE, TRUE) :
            n \in (1..(MaxLimbs + 1)) \ {NbLimbs(f)}}

\* witnesses: NbLimbs limbs the prover assigns, in range or one too large
Witnesses(f) == {Witness(l) : l \in [1..NbLimbs(f) -> 0..Pow2(BitsPerLimb(f))]}

\* elements built by the field: any number of limbs, limbs within their width
Internals(f, ov) ==
    {newInternalElement(l, ov) :
        l \in UNION {[1..n -> 0..(Pow2(BitsPerLimb(f) + ov) - 1)] : n \in 1..MaxLimbs}}

Elements(f) ==
    Constants(f) \cup Witnesses(f)
    \cup UNION {Internals(f, ov) : ov \in 0..Min(MaxOverflow, maxOverflow(f))}

\* the second operands of the calls that take two
ArgElements(f) == Constants(f) \cup Internals(f, 0)

\* second operands with overflow
OverflowArgs(f) == UNION {Internals(f, ov) : ov \in 1..Min(MaxOverflow, maxOverflow(f))}

(***************************************************************************)
(* The Miller loop and the calls built on it (package sw_bn254).  A G2      *)
(* point is a G2Affine the circuit holds by pointer; its Lines field is    *)
(* nil or holds line evaluations.                                          *)
(***************************************************************************)
(***************************************************************************)
(* The fixed G2 generator of a Pairing.  A pointer is the number of the    *)
(* object it points to, counted in the order the objects are built.        *)
(***************************************************************************)
\* the number of calls of generators followed
MaxGenCalls == 3

\* generators has a value receiver: pr is a copy of the Pairing the caller
\* holds, the assignment to pr.g2gen is made to this copy, and the Pairing
\* of the caller keeps the g2gen it had
generators(caller, n) ==
    LET pr == caller
        build == pr.g2gen = Nil
        cg2gen == n + 1
        pr1 == IF build THEN [pr EXCEPT !.g2gen = cg2gen] ELSE pr
    IN  [caller |-> caller, ret |-> pr1.g2gen, n |-> IF build THEN n + 1 ELSE n]

\* the number of G2 points of the circuit
NumG2 == 2
\* the length of the longest slice given to a call
MaxPairs == 2
\* the number of calls followed
MaxCalls == 2

G1Points == {1}
G2Points == 1..NumG2

NilLines == <<>>
\* the line evaluations of the point q: a function of its coordinates
computeLines(q) == <<"computeLines", q>>
\* line evaluations precomputed out of the circuit (NewG2AffineFixed)
FixedLines(q) == <<"NewG2AffineFixed", q>>

\* what a call returns and emits: the error chain, the result, the operations
\* emitted in order and the lines handed to millerLoopLines; with it the call
\* threads the Lines fields and the runs of computeLines
Entry(ls, n) ==
    [err |-> <<>>, res |-> "nil", trace |-> <<>>, used |-> <<>>, Lines |-> ls, n |-> n]

Output(st) == [err |-> st.err, res |-> st.res, trace |-> st.trace, used |-> st.used]

Emit(st, name) == [st EXCEPT !.trace = Append(@, name)]

\* the iteration without the test of the Lines field
storeLines_Always(st, q) ==
    [st EXCEPT !.Lines[q] = computeLines(q),
               !.n[q] = @ + 1,
               !.trace = Append(@, "computeLines"),
               !.used = Append(@, computeLines(q))]

\* one iteration of the loop of MillerLoop over Q: the lines of Q[i] are
\* computed and stored when its Lines field is nil
storeLines(st, q) ==
    IF st.Lines[q] = NilLines
    THEN [st EXCEPT !.Lines[q] = computeLines(q),
                    !.n[q] = @ + 1,
                    !.trace = Append(@, "computeLines"),
                    !.used = Append(@, computeLines(q))]
    ELSE [st EXCEPT !.used = Append(@, st.Lines[q])]

RECURSIVE linesLoop(_, _, _)
linesLoop(st, Q, i) ==
    IF i > Len(Q) THEN st
    ELSE With(storeLines(st, Q[i]), LAMBDA s : linesLoop(s, Q, i + 1))

millerLoopLines(st, P, lines) ==
    IF Len(P) = 0 \/ Len(P) # Len(lines)
    THEN [st EXCEPT !.err = <<"invalid inputs sizes">>, !.res = "nil"]
    ELSE [st EXCEPT !.trace = Append(@, "millerLoopLines"), !.res = "GTEl"]

\* MillerLoop that leaves the check of the sizes to millerLoopLines
MillerLoop_LateCheck(st, P, Q) ==
    With(linesLoop(st, Q, 1), LAMBDA s : millerLoopLines(s, P, s.used))

MillerLoop(st, P, Q) ==
    IF Len(P) = 0 \/ Len(P) # Len(Q)
    THEN [st EXCEPT !.err = <<"invalid inputs sizes">>, !.res = "nil"]
    ELSE With(linesLoop(st, Q, 1), LAMBDA s : millerLoopLines(s, P, s.used))

\* fmt.Errorf("miller loop: %w", err): the error, wrapped
Wrap(msg, err) == <<msg>> \o err

\* Pair with the flag of finalExponentiation set from len(P) != 1
Pair_Inverted(st, P, Q) ==
    With(MillerLoop(st, P, Q), LAMBDA s :
        IF s.err # <<>> THEN [s EXCEPT !.err = Wrap("miller loop", @), !.res = "nil"]
        ELSE Emit(s, IF Len(P) # 1 THEN "finalExponentiation(unsafe)"
                                   ELSE "finalExponentiation(safe)"))

Pair(st, P, Q) ==
    With(MillerLoop(st, P, Q), LAMBDA s :
        IF s.err # <<>> THEN [s EXCEPT !.err = Wrap("miller loop", @), !.res = "nil"]
        ELSE Emit(s, IF Len(P) = 1 THEN "finalExponentiation(unsafe)"
                                   ELSE "finalExponentiation(safe)"))

PairingCheck(st, P, Q) ==
    With(MillerLoop(st, P, Q), LAMBDA s :
        IF s.err # <<>> THEN [s EXCEPT !.res = "nil"]
        ELSE [s EXCEPT !.res = "nil",
                       !.trace = @ \o <<"Conjugate", "DivUnchecked", "FrobeniusSquare",
                                        "Mul", "AssertFinalExponentiationIsOne">>])

millerLoopAndFinalExpResult(st, q) ==
    With(storeLines([st EXCEPT !.trace = @ \o <<"NewHint", "Inverse">>], q), LAMBDA s :
        [s EXCEPT !.res = "GTEl",
                  !.trace = @ \o <<"millerLoop", "Mul", "Mul", "FrobeniusCube",
                                   "FrobeniusSquare", "DivUnchecked", "Frobenius",
                                   "Mul", "Mul">>])

\* slices of at most MaxPairs points
Slices(S) == UNION {[1..n -> S] : n \in 0..MaxPairs}

PairingIdle ==
    /\ Lines = [q \in G2Points |-> NilLines]
    /\ linesInit = Lines
    /\ linesPre = Lines
    /\ nComputed = [q \in G2Points |-> 0]
    /\ pop = ""
    /\ pP = <<>>
    /\ pQ = <<>>
    /\ out = Output(Entry(Lines, nComputed))
    /\ nCalls = 0

(***************************************************************************)
(* The final exponentiation.  The tower is a small one: the prime field of *)
(* q elements stands for E6, and its quadratic extension by w, w^2 = v,    *)
(* stands for E12 (v is not a square).  An element of E12 is C0 + C1 w; the *)
(* element y of E6 is the torus form of (y + w)/(y - w).                   *)
(*                                                                         *)
(* The torus of such a tower has q + 1 elements.  The towers taken are     *)
(* those where, as for BN254, the hard part of the exponentiation meets    *)
(* the identity on no element but those that the easy part sends to 1 or   *)
(* -1: q + 1 is twice an odd number prime to 3.  For q = 67 the whole       *)
(* exponent is a multiple of the order of the torus, so that every result  *)
(* is 1, as for a product of pairings that cancel.                         *)
(***************************************************************************)
TowerParams == {[q |-> 13, v |-> 2], [q |-> 37, v |-> 2], [q |-> 67, v |-> 2]}

E6(t) == 0..(t.q - 1)
E12(t) == [C0 : E6(t), C1 : E6(t)]

Ext6Zero == 0
Ext6One == 1
One == [C0 |-> Ext6One, C1 |-> Ext6Zero]

\* the value and whether the constraints that define it can be satisfied
Val(x) == [val |-> x, sat |-> TRUE]

Ext6Add(t, a, b) == (a + b) % t.q
Ext6Neg(t, a) == (0 - a) % t.q
Ext6Mul(t, a, b) == (a * b) % t.q
Ext6IsZero(a) == IF a = Ext6Zero THEN 1 ELSE 0
Ext6Select(b, x, y) == IF b = 1 THEN x ELSE y
Ext6Inverse(t, b) == CHOOSE x \in E6(t) : (x * b) % t.q = 1

\* DivUnchecked(a, b): no solution for a # 0 and b = 0, and any value for
\* 0/0 (free is the value the prover gives then)
Ext6DivUnchecked(t, a, b, free) ==
    IF b = Ext6Zero THEN [val |-> free, sat |-> a = Ext6Zero]
    ELSE Val(Ext6Mul(t, a, Ext6Inverse(t, b)))

\* y1 * y2 in torus form: (y1 y2 + v)/(y1 + y2)
MulTorus(t, y1, y2) ==
    Ext6DivUnchecked(t, Ext6Add(t, Ext6Mul(t, y1, y2), t.v), Ext6Add(t, y1, y2), Ext6Zero)

InverseTorus(t, y) == Val(Ext6Neg(t, y))

\* y^2 in torus form: the hinted sq with v = y (2 sq - y)
SquareTorus(t, y) ==
    IF y = Ext6Zero THEN [val |-> Ext6Zero, sat |-> FALSE]
    ELSE MulTorus(t, y, y)

\* the Frobenius map sends w to -w and fixes the prime field
FrobeniusTorus(t, y) == Val(Ext6Neg(t, y))
FrobeniusSquareTorus(t, y) == Val(y)
FrobeniusCubeTorus(t, y) == Val(Ext6Neg(t, y))

\* y^x0 in torus form, by square and multiply, for the seed x0 = 3
ExptTorus(t, y) ==
    With(SquareTorus(t, y), LAMBDA s :
        With(MulTorus(t, s.val, y), LAMBDA m :
            [val |-> m.val, sat |-> s.sat /\ m.sat]))

\* (y + w)/(y - w) = ((y^2 + v) + 2 y w)/(y^2 - v)
DecompressTorus(t, y) ==
    With(Ext6Inverse(t, Ext6Add(t, Ext6Mul(t, y, y), Ext6Neg(t, t.v))), LAMBDA d :
        [C0 |-> Ext6Mul(t, Ext6Add(t, Ext6Mul(t, y, y), t.v), d),
         C1 |-> Ext6Mul(t, 2 * y, d)])

\* Ext12.Select
Select(b, x, y) == IF b = 1 THEN x ELSE y

\* one operation on torus forms
TorusOp(t, name, a, b) ==
    CASE name = "Neg" -> Val(Ext6Neg(t, a))
      [] name = "MulTorus" -> MulTorus(t, a, b)
      [] name = "SquareTorus" -> SquareTorus(t, a)
      [] name = "InverseTorus" -> InverseTorus(t, a)
      [] name = "ExptTorus" -> ExptTorus(t, a)
      [] name = "FrobeniusTorus" -> FrobeniusTorus(t, a)
      [] name = "FrobeniusSquareTorus" -> FrobeniusSquareTorus(t, a)
      [] name = "FrobeniusCubeTorus" -> FrobeniusCubeTorus(t, a)

\* the statements of finalExponentiation from the negation of c to the last
\* FrobeniusCubeTorus: <<assigned variable, operation, operands>>
TorusSteps ==
    << <<"c", "Neg", "c", "c">>,
       <<"t0", "FrobeniusSquareTorus", "c", "c">>,
       <<"c", "MulTorus", "t0", "c">>,
       <<"t0", "ExptTorus", "c", "c">>,
       <<"t0", "InverseTorus", "t0", "t0">>,
       <<"t0", "SquareTorus", "t0", "t0">>,
       <<"t1", "SquareTorus", "t0", "t0">>,
       <<"t1", "MulTorus", "t0", "t1">>,
       <<"t2", "ExptTorus", "t1", "t1">>,
       <<"t2", "InverseTorus", "t2", "t2">>,
       <<"t3", "InverseTorus", "t1", "t1">>,
       <<"t1", "MulTorus", "t2", "t3">>,
       <<"t3", "SquareTorus", "t2", "t2">>,
       <<"t4", "ExptTorus", "t3", "t3">>,
       <<"t4", "MulTorus", "t1", "t4">>,
       <<"t3", "MulTorus", "t0", "t4">>,
       <<"t0", "MulTorus", "t2", "t4">>,
       <<"t0", "MulTorus", "c", "t0">>,
       <<"t2", "FrobeniusTorus", "t3", "t3">>,
       <<"t0", "MulTorus", "t2", "t0">>,
       <<"t2", "FrobeniusSquareTorus", "t4", "t4">>,
       <<"t0", "MulTorus", "t2", "t0">>,
       <<"t2", "InverseTorus", "c", "c">>,
       <<"t2", "MulTorus", "t2", "t3">>,
       <<"t2", "FrobeniusCubeTorus", "t2", "t2">> >>

\* the local variables, whether the constraints so far can be satisfied, and
\* the operations emitted so far
Locals(c, sat, ops) ==
    [r |-> [x \in {"c", "t0", "t1", "t2", "t3", "t4"} |-> IF x = "c" THEN c ELSE Ext6Zero],
     sat |-> sat, ops |-> ops]

Step(t, ins, env) ==
    With(TorusOp(t, ins[2], env.r[ins[3]], env.r[ins[4]]), LAMBDA o :
        [r |-> [env.r EXCEPT ![ins[1]] = o.val],
         sat |-> env.sat /\ o.sat,
         ops |-> Append(env.ops, ins[2])])

RECURSIVE Steps(_, _, _)
Steps(t, i, env) ==
    IF i > Len(TorusSteps) THEN env
    ELSE With(Step(t, TorusSteps[i], env), LAMBDA s : Steps(t, i + 1, s))

\* the guard of the divisor without the Select
guardDivisor_Unguarded(selector1, c1) == c1

\* e.C1.B0.A0 = Select(selector1, One, e.C1.B0.A0)
guardDivisor(selector1, c1) == Ext6Select(selector1, Ext6One, c1)

\* the last Select with its two values exchanged
selectResult_Swapped(t, selector1, selector2, prod) ==
    Select(apiMul(apiSub(1, selector1), apiSub(1, selector2)), One, DecompressTorus(t, prod))

\* selector = (1 - selector1)(1 - selector2); Select(selector, decompressed, One)
selectResult(t, selector1, selector2, prod) ==
    Select(apiMul(apiSub(1, selector1), apiSub(1, selector2)), DecompressTorus(t, prod), One)

\* the end of the unsafe variant
finishUnsafe(t, g, div, env) ==
    With(MulTorus(t, env.r["t2"], env.r["t0"]), LAMBDA m :
        [called |-> TRUE, unsafe |-> TRUE, input |-> g, after |-> g,
         selector1 |-> 0, selector2 |-> 0, divisor |-> div, prod |-> m.val,
         sat |-> env.sat /\ m.sat,
         ops |-> env.ops \o <<"MulTorus", "DecompressTorus">>,
         result |-> DecompressTorus(t, m.val)])

\* the end of the safe variant
finishSafe(t, g, gOut, selector1, div, env) ==
    With(Ext6IsZero(Ext6Add(t, env.r["t0"], env.r["t2"])), LAMBDA selector2 :
        With(MulTorus(t, env.r["t2"], Ext6Select(selector2, Ext6One, env.r["t0"])), LAMBDA m :
            [called |-> TRUE, unsafe |-> FALSE, input |-> g, after |-> gOut,
             selector1 |-> selector1, selector2 |-> selector2, divisor |-> div, prod |-> m.val,
             sat |-> env.sat /\ m.sat,
             ops |-> env.ops \o <<"Ext6.Add", "Ext6.IsZero", "Ext6.Select", "api.Sub",
                                  "api.Sub", "api.Mul", "MulTorus", "DecompressTorus",
                                  "Select">>,
             result |-> selectResult(t, selector1, selector2, m.val)]))

\* finalExponentiation(e, unsafe): the run, with the element e as the call
\* leaves it
finalExponentiation(t, g, unsafe, free) ==
    IF unsafe
    THEN With(Ext6DivUnchecked(t, g.C0, g.C1, free), LAMBDA c :
            With(Steps(t, 1, Locals(c.val, c.sat, <<"Ext6.DivUnchecked">>)), LAMBDA env :
                finishUnsafe(t, g, g.C1, env)))
    ELSE With(Ext6IsZero(g.C1), LAMBDA selector1 :
            With(guardDivisor(selector1, g.C1), LAMBDA c1 :
                With(Ext6DivUnchecked(t, g.C0, c1, free), LAMBDA c :
                    With(Steps(t, 1, Locals(c.val, c.sat,
                            <<"Ext6.IsZero", "curveF.Select", "Ext6.DivUnchecked">>)),
                         LAMBDA env :
                            finishSafe(t, g, [g EXCEPT !.C1 = c1], selector1, c1, env)))))

FinalExponentiation(t, g) == finalExponentiation(t, g, FALSE, Ext6Zero)
FinalExponentiationUnsafe(t, g, free) == finalExponentiation(t, g, TRUE, free)

NotRun ==
    [called |-> FALSE, unsafe |-> FALSE, input |-> One, after |-> One,
     selector1 |-> 0, selector2 |-> 0, divisor |-> Ext6One, prod |-> Ext6Zero, sat |-> TRUE,
     ops |-> <<>>, result |-> One]

ExpIdle ==
    /\ tower = [q |-> 13, v |-> 2]
    /\ gt0 = One
    /\ gt = One
    /\ feSafe = NotRun
    /\ feUnsafe = NotRun

(***************************************************************************)
(* The build of a circuit over one element.                                *)
(***************************************************************************)
InitField ==
    /\ fp \in FieldParams
    /\ e0 \in Elements(fp)
    /\ e = e0
    /\ op = ""
    /\ arg = ZeroElement
    /\ ret = <<>>
    /\ bitsFrom = ""
    /\ retEl = ZeroElement
    /\ reduced = ZeroElement
    /\ exact = FALSE
    /\ eff = NoEffect
    /\ nRange = 0
    /\ nRangeCmp = 0

\* a panic aborts the build
Building == eff.panic = ""

\* The calls other than AssertIsInRange leave the field and the element as
\* they are, so a build is followed up to the first of them (and the FromBits
\* that takes its bits).
Open == Building /\ op \in {"", "AssertIsInRange"}

CallEnforceWidth ==
    /\ Open
    /\ \E modWidth \in BOOLEAN :
        /\ eff' = enforceWidth(fp, e, modWidth)
        /\ exact' = modWidth
    /\ op' = "enforceWidth"
    /\ arg' = ZeroElement /\ ret' = <<>> /\ bitsFrom' = "" /\ retEl' = ZeroElement
    /\ reduced' = ZeroElement
    /\ UNCHANGED <<fp, e0, e, nRange, nRangeCmp>>
    /\ UNCHANGED <<pairingVars, expVars, restVars>>

CallAssertIsEqual ==
    /\ Open
    /\ \E b \in ArgElements(fp) :
        /\ eff' = AssertIsEqual(fp, e, b)
        /\ arg' = b
    /\ op' = "AssertIsEqual"
    /\ ret' = <<>> /\ bitsFrom' = "" /\ retEl' = ZeroElement /\ reduced' = ZeroElement
    /\ UNCHANGED <<fp, e0, e, exact, nRange, nRangeCmp>>
    /\ UNCHANGED <<pairingVars, expVars, restVars>>

CallAssertIsLessOrEqual ==
    /\ Open
    /\ \E a \in ArgElements(fp) \cup OverflowArgs(fp) :
        /\ eff' = AssertIsLessOrEqual(fp, e, a)
        /\ arg' = a
    /\ op' = "AssertIsLessOrEqual"
    /\ ret' = <<>> /\ bitsFrom' = "" /\ retEl' = ZeroElement /\ reduced' = ZeroElement
    /\ UNCHANGED <<fp, e0, e, exact, nRange, nRangeCmp>>
    /\ UNCHANGED <<pairingVars, expVars, restVars>>

CallAssertIsInRange ==
    /\ Open
    /\ nRange < MaxRange
    /\ \E r \in {AssertIsInRange(fp, e)} :
           /\ eff' = r.eff
           /\ e' = r.el
           /\ nRangeCmp' = nRangeCmp + r.eff.cmps
    /\ nRange' = nRange + 1
    /\ op' = "AssertIsInRange"
    /\ arg' = ZeroElement /\ ret' = <<>> /\ bitsFrom' = "" /\ retEl' = ZeroElement
    /\ reduced' = ZeroElement
    /\ UNCHANGED <<fp, e0, exact>>
    /\ UNCHANGED <<pairingVars, expVars, restVars>>

CallIsZero ==
    /\ Open
    /\ \E k \in ReduceChoices(fp, e) :
        \E r \in {IsZero(fp, e, k)} :
            /\ eff' = r.eff
            /\ ret' = <<r.val>>
            /\ reduced' = r.ca
    /\ op' = "IsZero"
    /\ arg' = ZeroElement /\ bitsFrom' = "" /\ retEl' = ZeroElement
    /\ UNCHANGED <<fp, e0, e, exact, nRange, nRangeCmp>>
    /\ UNCHANGED <<pairingVars, expVars, restVars>>

CallAssertIsDifferent ==
    /\ Open
    /\ \E b \in ArgElements(fp) :
        \E k \in ReduceChoices(fp, Sub(fp, e, b).el) :
            \E r \in {AssertIsDifferent(fp, e, b, k)} :
                /\ eff' = r.eff
                /\ ret' = <<r.val>>
                /\ reduced' = r.ca
                /\ arg' = b
    /\ op' = "AssertIsDifferent"
    /\ bitsFrom' = "" /\ retEl' = ZeroElement
    /\ UNCHANGED <<fp, e0, e, exact, nRange, nRangeCmp>>
    /\ UNCHANGED <<pairingVars, expVars, restVars>>

CallToBits ==
    /\ Open
    /\ \E r \in {ToBits(fp, e)} :
           /\ eff' = r.eff
           /\ ret' = r.bits
           /\ bitsFrom' = IF r.eff.panic = "" THEN "ToBits" ELSE ""
    /\ op' = "ToBits"
    /\ arg' = ZeroElement /\ retEl' = ZeroElement /\ reduced' = ZeroElement
    /\ UNCHANGED <<fp, e0, e, exact, nRange, nRangeCmp>>
    /\ UNCHANGED <<pairingVars, expVars, restVars>>

CallToBitsCanonical ==
    /\ Open
    /\ \E r \in {ToBitsCanonical(fp, e)} :
           /\ eff' = r.eff
           /\ ret' = r.bits
           /\ bitsFrom' = IF r.eff.panic = "" THEN "ToBitsCanonical" ELSE ""
    /\ op' = "ToBitsCanonical"
    /\ arg' = ZeroElement /\ retEl' = ZeroElement /\ reduced' = ZeroElement
    /\ UNCHANGED <<fp, e0, e, exact, nRange, nRangeCmp>>
    /\ UNCHANGED <<pairingVars, expVars, restVars>>

\* FromBits on the bits the last call returned
CallFromBits ==
    /\ Building
    /\ bitsFrom # ""
    /\ op # "FromBits"
    /\ \E r \in {FromBits(fp, ret)} :
           /\ eff' = r.eff
           /\ retEl' = r.el
    /\ op' = "FromBits"
    /\ arg' = ZeroElement
    /\ UNCHANGED <<fp, e0, e, ret, bitsFrom, reduced, exact, nRange, nRangeCmp>>
    /\ UNCHANGED <<pairingVars, expVars, restVars>>

Init == InitField /\ PairingIdle /\ ExpIdle /\ RestIdle

Next ==
    \/ CallEnforceWidth
    \/ CallAssertIsEqual
    \/ CallAssertIsLessOrEqual
    \/ CallAssertIsInRange
    \/ CallIsZero
    \/ CallAssertIsDifferent
    \/ CallToBits
    \/ CallToBitsCanonical
    \/ CallFromBits

Spec == Init /\ [][Next]_vars

(***************************************************************************)
(* A circuit that calls the pairing on slices of its points.               *)
(***************************************************************************)
FieldIdle ==
    /\ fp = [bits |-> 2, modulus |-> 13]
    /\ e0 = ZeroElement /\ e = ZeroElement /\ arg = ZeroElement
    /\ retEl = ZeroElement /\ reduced = ZeroElement
    /\ op = "" /\ ret = <<>> /\ bitsFrom = "" /\ exact = FALSE
    /\ eff = NoEffect /\ nRange = 0 /\ nRangeCmp = 0

InitPairing ==
    /\ FieldIdle
    /\ ExpIdle
    /\ RestIdle
    /\ Lines \in {ls \in [G2Points -> {NilLines} \cup {FixedLines(q) : q \in G2Points}] :
                    \A q \in G2Points : ls[q] \in {NilLines, FixedLines(q)}}
    /\ linesInit = Lines
    /\ linesPre = Lines
    /\ nComputed = [q \in G2Points |-> 0]
    /\ pop = "" /\ pP = <<>> /\ pQ = <<>>
    /\ out = Output(Entry(Lines, nComputed))
    /\ nCalls = 0

\* the call name(P, Q) has run and left st
Return(name, P, Q, st) ==
    /\ pop' = name /\ pP' = P /\ pQ' = Q
    /\ out' = Output(st)
    /\ Lines' = st.Lines
    /\ nComputed' = st.n
    /\ linesPre' = Lines
    /\ nCalls' = nCalls + 1
    /\ UNCHANGED <<linesInit, fieldVars, expVars, restVars>>

CallMillerLoop ==
    /\ nCalls < MaxCalls
    /\ \E P \in Slices(G1Points), Q \in Slices(G2Points) :
        \E st \in {MillerLoop(Entry(Lines, nComputed), P, Q)} :
            Return("MillerLoop", P, Q, st)

\* millerLoopLines on lines the caller holds
CallMillerLoopLines ==
    /\ nCalls < MaxCalls
    /\ \E P \in Slices(G1Points), Q \in Slices(G2Points) :
        \E lines \in {[i \in 1..Len(Q) |-> computeLines(Q[i])]} :
            \E st \in {millerLoopLines([Entry(Lines, nComputed) EXCEPT !.used = lines],
                                       P, lines)} :
                Return("millerLoopLines", P, Q, st)

CallPair ==
    /\ nCalls < MaxCalls
    /\ \E P \in Slices(G1Points), Q \in Slices(G2Points) :
        \E st \in {Pair(Entry(Lines, nComputed), P, Q)} :
            Return("Pair", P, Q, st)

CallPairingCheck ==
    /\ nCalls < MaxCalls
    /\ \E P \in Slices(G1Points), Q \in Slices(G2Points) :
        \E st \in {PairingCheck(Entry(Lines, nComputed), P, Q)} :
            Return("PairingCheck", P, Q, st)

CallMillerLoopAndFinalExpResult ==
    /\ nCalls < MaxCalls
    /\ \E p \in G1Points, q \in G2Points :
        \E st \in {millerLoopAndFinalExpResult(Entry(Lines, nComputed), q)} :
            Return("millerLoopAndFinalExpResult", <<p>>, <<q>>, st)

CallGenerators ==
    /\ nGen < MaxGenCalls
    /\ \E r \in {generators([g2gen |-> g2gen], nBuilt)} :
        /\ g2gen' = r.caller.g2gen
        /\ genRet' = r.ret
        /\ nBuilt' = r.n
    /\ nGen' = nGen + 1
    /\ UNCHANGED <<pairingVars, fieldVars, expVars, curveVars, schemaVars, millerVars, moreVars>>

NextPairing ==
    \/ CallMillerLoop
    \/ CallMillerLoopLines
    \/ CallPair
    \/ CallPairingCheck
    \/ CallMillerLoopAndFinalExpResult
    \/ CallGenerators

SpecPairing == InitPairing /\ [][NextPairing]_vars

(***************************************************************************)
(* A circuit that runs the final exponentiations on one element of GT.     *)
(***************************************************************************)
InitFinalExp ==
    /\ FieldIdle
    /\ PairingIdle
    /\ RestIdle
    /\ tower \in TowerParams
    /\ gt0 \in E12(tower)
    /\ gt = gt0
    /\ feSafe = NotRun
    /\ feUnsafe = NotRun

CallFinalExponentiation ==
    /\ ~feSafe.called
    /\ \E r \in {FinalExponentiation(tower, gt)} :
        /\ feSafe' = r
        /\ gt' = r.after
    /\ UNCHANGED <<tower, gt0, feUnsafe, fieldVars, pairingVars, restVars>>

\* the values the prover can give to 0/0
FreeValues(t, g) == IF g.C0 = Ext6Zero /\ g.C1 = Ext6Zero THEN E6(t) ELSE {Ext6Zero}

CallFinalExponentiationUnsafe ==
    /\ ~feUnsafe.called
    /\ \E free \in FreeValues(tower, gt) :
        \E r \in {FinalExponentiationUnsafe(tower, gt, free)} :
            /\ feUnsafe' = r
            /\ gt' = r.after
    /\ UNCHANGED <<tower, gt0, feSafe, fieldVars, pairingVars, restVars>>

NextFinalExp ==
    \/ CallFinalExponentiation
    \/ CallFinalExponentiationUnsafe

SpecFinalExp == InitFinalExp /\ [][NextFinalExp]_vars

(***************************************************************************)
(* Properties of the emulated field engine.                                *)
(***************************************************************************)
\* an element as the field builds or accepts it: a constant on NbLimbs limbs
\* (or Zero), any other element with every limb within its width
WellFormed(f, a) ==
    IF a.const THEN Len(a.limbs) \in {0, NbLimbs(f)}
    ELSE \A i \in 1..Len(a.limbs) : a.limbs[i] < Pow2(limbNbBits(f, a, ~a.internal, i))

\* C1: AssertIsLessOrEqual(e, a) on two zero-overflow operands does not
\* abort, and its constraints are satisfied exactly when the integer value
\* of e is at most the integer value of a, whatever the two numbers of bits.
C1_LessOrEqualIffValue ==
    (op = "AssertIsLessOrEqual" /\ e.overflow + arg.overflow = 0
        /\ WellFormed(fp, e) /\ WellFormed(fp, arg))
    => /\ eff.panic = ""
       /\ eff.cmps = 1
       /\ eff.sat <=> Value(fp, e) <= Value(fp, arg)

\* a satisfied comparison of a longer e with a shorter a of the same value
C1_Witness ==
    /\ op = "AssertIsLessOrEqual" /\ eff.panic = "" /\ eff.sat
    /\ ~e.const /\ ~arg.const
    /\ Len(e.limbs) > Len(arg.limbs)
    /\ Value(fp, e) = Value(fp, arg) /\ Value(fp, e) > 1

\* C2: IsZero returns 1 exactly when the value of the element is congruent to
\* 0 modulo the modulus: the constant 1, with nothing emitted, for the element
\* on zero limbs, and otherwise 1 iff the loose reduction r or r + modulus the
\* prover gave is 0 or the modulus.
C2_IsZeroIffCongruent ==
    (op = "IsZero" /\ eff.panic = "")
    => /\ ret[1] = 1 <=> Value(fp, e) % Modulus(fp) = 0
       /\ isStrictZero(e) => ret[1] = 1 /\ eff = NoEffect
       /\ ~isStrictZero(e) =>
            /\ Value(fp, reduced) \in {Value(fp, e) % Modulus(fp),
                                       (Value(fp, e) % Modulus(fp)) + Modulus(fp)}
            /\ ret[1] = 1 <=> Value(fp, reduced) \in {0, Modulus(fp)}

\* an element with overflow whose loose reduction is the modulus itself
C2_Witness ==
    /\ op = "IsZero" /\ eff.panic = "" /\ eff.sat
    /\ e.overflow > 0 /\ Value(fp, e) > Modulus(fp)
    /\ Value(fp, reduced) = Modulus(fp)
    /\ ret = <<1>>

\* C3: for every x below the modulus, FromBits(ToBitsCanonical(x)) has
\* overflow 0 and the integer value x.
C3_CanonicalRoundTrip ==
    (op = "FromBits" /\ bitsFrom = "ToBitsCanonical" /\ Value(fp, e) < Modulus(fp))
    => /\ eff.panic = ""
       /\ retEl.overflow = 0
       /\ Value(fp, retEl) = Value(fp, e)

\* a witness of value modulus - 1 for a modulus that is a power of two: the
\* bits returned are one fewer than the length of the modulus, and the last
\* limb takes the one remaining bit
C3_Witness ==
    /\ op = "FromBits" /\ bitsFrom = "ToBitsCanonical"
    /\ ~e.const /\ ~e.internal
    /\ Modulus(fp) = Pow2(BitLen(Modulus(fp)) - 1)
    /\ Value(fp, e) = Modulus(fp) - 1
    /\ Len(ret) = BitLen(Modulus(fp)) - 1
    /\ Len(ret) % BitsPerLimb(fp) # 0
    /\ Value(fp, retEl) = Modulus(fp) - 1

\* C8: AssertIsEqual on two constants emits nothing and aborts exactly when
\* the two values differ modulo the modulus; with an operand that is not a
\* constant it does not abort and emits one checkZero of b - a, satisfied
\* exactly when b - a is a multiple of the modulus.
C8_AssertIsEqualConstants ==
    (op = "AssertIsEqual" /\ WellFormed(fp, e) /\ WellFormed(fp, arg))
    => IF e.const /\ arg.const
       THEN /\ eff.zeros = 0 /\ eff.asserts = 0 /\ eff.checks = <<>> /\ eff.sat
            /\ eff.panic # "" <=> Value(fp, e) % Modulus(fp) # Value(fp, arg) % Modulus(fp)
            /\ eff.panic \in {"", Mismatch(Value(fp, e) % Modulus(fp),
                                            Value(fp, arg) % Modulus(fp))}
       ELSE /\ eff.panic = ""
            /\ eff.zeros = 1
            /\ eff.sat <=> (Value(fp, arg) - Value(fp, e)) % Modulus(fp) = 0

\* two constants of different values: the build aborts
C8_Witness ==
    /\ op = "AssertIsEqual" /\ e.const /\ arg.const
    /\ WellFormed(fp, e) /\ WellFormed(fp, arg)
    /\ Value(fp, e) # Value(fp, arg)
    /\ eff.panic = Mismatch(Value(fp, e), Value(fp, arg))

\* C9: AssertIsInRange does nothing on an element that is marked modReduced;
\* on an element that is not, it emits the comparison with modulus - 1 and
\* marks it.  After any number of calls that did not abort the element is
\* marked, the comparison has been emitted exactly once if the element was not
\* marked at first (and never if it was), and a mark the calls have set comes
\* after an emitted comparison.
RangeDone == nRange >= 1 /\ ~(op = "AssertIsInRange" /\ eff.panic # "")

C9_AssertIsInRangeOnce ==
    /\ RangeDone => e.modReduced
    /\ (RangeDone /\ ~e0.modReduced) => nRangeCmp = 1
    /\ e0.modReduced => nRangeCmp = 0 /\ e = e0
    /\ (e.modReduced /\ ~e0.modReduced) => nRangeCmp >= 1
    /\ (op = "AssertIsInRange" /\ (e0.modReduced \/ nRange >= 2)) => eff = NoEffect

\* a second call on an element the first call has marked
C9_Witness ==
    /\ op = "AssertIsInRange" /\ nRange = 2
    /\ ~e0.modReduced /\ e.modReduced
    /\ ~e0.const
    /\ nRangeCmp = 1
    /\ eff = NoEffect

\* C10 as the specification states it: on a constant, enforceWidth emits no
\* range check and aborts exactly when the number of limbs is not NbLimbs.
C10_ConstantExempt ==
    (op = "enforceWidth" /\ e.const)
    => /\ eff.checks = <<>>
       /\ eff.panic # "" <=> Len(e.limbs) # NbLimbs(fp)

\* C10 as the code has it: on a constant, enforceWidth aborts when modWidth
\* is set and the number of limbs is not NbLimbs, and otherwise emits one range
\* check for every limb, as it does for any other element.
C10_ConstantChecked ==
    (op = "enforceWidth" /\ e.const)
    => IF exact /\ Len(e.limbs) # NbLimbs(fp)
       THEN /\ eff.panic = "constant limb width doesn't match parametrized field"
            /\ eff.checks = <<>>
       ELSE /\ eff.panic = ""
            /\ Len(eff.checks) = Len(e.limbs)
            /\ \A i \in 1..Len(e.limbs) :
                 eff.checks[i] = <<e.limbs[i], limbNbBits(fp, e, exact, i)>>

\* a constant of NbLimbs limbs whose limbs are all range checked
C10_Witness ==
    /\ op = "enforceWidth" /\ e.const /\ exact
    /\ Len(e.limbs) = NbLimbs(fp)
    /\ Len(eff.checks) = NbLimbs(fp)
    /\ eff.panic = ""

(***************************************************************************)
(* Properties of the pairing.                                              *)
(***************************************************************************)
\* the slices of the last call do not make pairs
BadSizes == Len(pP) = 0 \/ Len(pP) # Len(pQ)

\* C4: MillerLoop returns the error "invalid inputs sizes" when P is empty
\* or P and Q differ in length, PairingCheck returns that error as it is and
\* Pair returns it wrapped ("miller loop: invalid inputs sizes"); the call has
\* then emitted nothing (no line computation, no Miller loop, no final
\* exponentiation, no assertion) and has left every Lines field as it was.
\* With slices that make pairs none of the three returns an error.
C4_InvalidInputSizes ==
    (pop \in {"MillerLoop", "Pair", "PairingCheck"})
    => /\ BadSizes =>
            /\ out.err = IF pop = "Pair"
                         THEN <<"miller loop", "invalid inputs sizes">>
                         ELSE <<"invalid inputs sizes">>
            /\ out.res = "nil"
            /\ out.trace = <<>>
            /\ out.used = <<>>
            /\ Lines = linesPre
       /\ ~BadSizes => out.err = <<>>

\* Pair on two G1 points and one G2 point whose lines are not computed
C4_Witness ==
    /\ pop = "Pair" /\ Len(pP) = 2 /\ Len(pQ) = 1
    /\ linesPre[pQ[1]] = NilLines
    /\ out.err = <<"miller loop", "invalid inputs sizes">>
    /\ out.trace = <<>>

\* the lines the last call takes for the i-th point of Q
LinesTaken(i) ==
    IF linesPre[pQ[i]] # NilLines THEN linesPre[pQ[i]]
    ELSE computeLines(pQ[i])

\* C5: the lines of a G2 point are computed at most once over all the calls:
\* never for a point that came with its Lines set, once for a point whose
\* Lines field the calls have set; a Lines field that is set is not changed
\* by a call; and MillerLoop (also under Pair and PairingCheck) and
\* millerLoopAndFinalExpResult use the stored lines of a point whose Lines
\* field is set, and the lines they compute and store otherwise.
C5_LinesComputedOnce ==
    /\ \A q \in G2Points :
        /\ nComputed[q] <= 1
        /\ linesInit[q] # NilLines => nComputed[q] = 0 /\ Lines[q] = linesInit[q]
        /\ linesPre[q] # NilLines => Lines[q] = linesPre[q]
        /\ (linesInit[q] = NilLines /\ Lines[q] # NilLines) =>
                nComputed[q] = 1 /\ Lines[q] = computeLines(q)
        /\ (linesInit[q] = NilLines /\ Lines[q] = NilLines) => nComputed[q] = 0
    /\ (pop \in {"MillerLoop", "Pair", "PairingCheck", "millerLoopAndFinalExpResult"}
            /\ out.err = <<>>)
        => /\ Len(out.used) = Len(pQ)
           /\ \A i \in 1..Len(pQ) :
                /\ out.used[i] = LinesTaken(i)
                /\ Lines[pQ[i]] = LinesTaken(i)

\* a second call, with the same point twice in Q, after a first call has
\* computed the lines of that point
C5_Witness ==
    /\ nCalls = 2
    /\ pop = "MillerLoop"
    /\ Len(pQ) = 2 /\ pQ[1] = pQ[2]
    /\ linesInit[pQ[1]] = NilLines
    /\ linesPre[pQ[1]] = computeLines(pQ[1])
    /\ nComputed[pQ[1]] = 1
    /\ out.used = <<computeLines(pQ[1]), computeLines(pQ[1])>>

\* C6: FinalExponentiation and FinalExponentiationUnsafe, run on the same
\* element, return the same value and are satisfiable on the same elements
\* whenever both selectors of the safe run are 0.
C6_SafeUnsafeAgree ==
    (/\ feSafe.called /\ feUnsafe.called
     /\ feSafe.input = feUnsafe.input
     /\ feSafe.selector1 = 0 /\ feSafe.selector2 = 0)
    => /\ feSafe.result = feUnsafe.result
       /\ feSafe.sat = feUnsafe.sat

\* both have run on an element that is not degenerate, with a solution
C6_Witness ==
    /\ feSafe.called /\ feUnsafe.called
    /\ feSafe.input = feUnsafe.input
    /\ feSafe.input.C0 # Ext6Zero /\ feSafe.input.C1 # Ext6Zero
    /\ feSafe.selector1 = 0 /\ feSafe.selector2 = 0
    /\ feSafe.sat /\ feUnsafe.sat
    /\ feUnsafe.result # One
    /\ feSafe.result = feUnsafe.result

\* the operations the safe variant emits
SafeOperations ==
    <<"Ext6.IsZero", "curveF.Select", "Ext6.DivUnchecked">>
    \o [i \in 1..Len(TorusSteps) |-> TorusSteps[i][2]]
    \o <<"Ext6.Add", "Ext6.IsZero", "Ext6.Select", "api.Sub", "api.Sub", "api.Mul",
         "MulTorus", "DecompressTorus", "Select">>

\* C7: in the safe FinalExponentiation the divisor of the first division is
\* never zero: for e.C1 = 0 it is the dummy One, and e = 1 then has a solution
\* and gives the result One.  The result is the decompressed torus product
\* when selector1 = 0 and selector2 = 0 and One otherwise, and the operations
\* emitted are the same for every element.
C7_SafeAcceptsDegenerate ==
    feSafe.called
    => /\ feSafe.divisor # Ext6Zero
       /\ feSafe.selector1 = 1 <=> feSafe.input.C1 = Ext6Zero
       /\ feSafe.input.C1 = Ext6Zero => feSafe.divisor = Ext6One
       /\ feSafe.input = One => feSafe.sat /\ feSafe.result = One
       /\ feSafe.result = IF feSafe.selector1 = 0 /\ feSafe.selector2 = 0
                          THEN DecompressTorus(tower, feSafe.prod)
                          ELSE One
       /\ (feSafe.selector1 = 1 \/ feSafe.selector2 = 1) => feSafe.result = One
       /\ feSafe.ops = SafeOperations

\* the safe variant on e = 1
C7_Witness ==
    /\ feSafe.called
    /\ feSafe.input = One
    /\ feSafe.selector1 = 1
    /\ feSafe.divisor = Ext6One
    /\ feSafe.sat
    /\ feSafe.result = One

\* the safe variant on an element with t0 + t2 = 0
C7_WitnessSelector2 ==
    /\ feSafe.called
    /\ feSafe.selector1 = 0 /\ feSafe.selector2 = 1
    /\ feSafe.sat
    /\ feSafe.result = One

\* the sum of the widths of the range checks from the i-th on
RECURSIVE WidthSum(_, _)
WidthSum(checks, i) ==
    IF i > Len(checks) THEN 0 ELSE checks[i][2] + WidthSum(checks, i + 1)

\* C11: enforceWidth(a, exact) range-checks every limb but the top one to
\* BitsPerLimb bits; with exact set the top limb is checked to
\* ((bitLen(modulus) - 1) mod BitsPerLimb) + 1 bits and the widths add up to
\* bitLen(modulus); with exact unset the top limb is checked to BitsPerLimb
\* bits; with exact set and a limb count that is not NbLimbs the call aborts
\* before any check.
C11_CheckedWidths ==
    (op = "enforceWidth")
    => IF exact /\ Len(e.limbs) # NbLimbs(fp)
       THEN eff.panic # "" /\ eff.checks = <<>>
       ELSE /\ eff.panic = ""
            /\ Len(eff.checks) = Len(e.limbs)
            /\ \A i \in 1..Len(e.limbs) :
                /\ eff.checks[i][1] = e.limbs[i]
                /\ i < Len(e.limbs) => eff.checks[i][2] = BitsPerLimb(fp)
                /\ (i = Len(e.limbs) /\ ~exact) => eff.checks[i][2] = BitsPerLimb(fp)
                /\ (i = Len(e.limbs) /\ exact) =>
                        eff.checks[i][2] =
                            ((BitLen(Modulus(fp)) - 1) % BitsPerLimb(fp)) + 1
            /\ exact => WidthSum(eff.checks, 1) = BitLen(Modulus(fp))
            /\ eff.sat <=> \A i \in 1..Len(e.limbs) : e.limbs[i] < Pow2(eff.checks[i][2])

\* an exact check of two limbs whose top limb is narrower than the others
C11_Witness ==
    /\ op = "enforceWidth" /\ exact /\ eff.panic = ""
    /\ Len(e.limbs) = 2 /\ NbLimbs(fp) = 2
    /\ eff.checks[1][2] = BitsPerLimb(fp)
    /\ eff.checks[2][2] < BitsPerLimb(fp)
    /\ WidthSum(eff.checks, 1) = BitLen(Modulus(fp))

CanonicalNbBits(f) ==
    IF Modulus(f) = Pow2(BitLen(Modulus(f)) - 1)
    THEN BitLen(Modulus(f)) - 1
    ELSE BitLen(Modulus(f))

\* C13: ToBitsCanonical(a) returns bitLen(modulus) bits, one fewer when the
\* modulus is a power of two; the strictly reduced value fits in these bits
\* (the bits the truncation drops are 0), so that, when the constraints are
\* satisfied, the bits returned are the bits of a mod modulus.
C13_CanonicalBits ==
    (op = "ToBitsCanonical" /\ eff.panic = "")
    => /\ Len(ret) = CanonicalNbBits(fp)
       /\ \A j \in 1..Len(ret) : ret[j] \in {0, 1}
       /\ (Value(fp, e) % Modulus(fp)) < Pow2(Len(ret))
       /\ eff.sat =>
            /\ BitsValue(ret) = Value(fp, e) % Modulus(fp)
            /\ \A j \in 1..Len(ret) :
                 ret[j] = ((Value(fp, e) % Modulus(fp)) \div Pow2(j - 1)) % 2

\* an element above a modulus that is a power of two
C13_Witness ==
    /\ op = "ToBitsCanonical" /\ eff.panic = "" /\ eff.sat
    /\ Modulus(fp) = Pow2(BitLen(Modulus(fp)) - 1)
    /\ ~e.const
    /\ Value(fp, e) > Modulus(fp)
    /\ Len(ret) = BitLen(Modulus(fp)) - 1
    /\ BitsValue(ret) = Value(fp, e) - Modulus(fp)
    /\ ret[Len(ret)] = 1

(***************************************************************************)
(* The steps on the twist.  A prime field of q elements stands for E2, the *)
(* field of the coordinates of a G2 point, and bTwist is the constant of   *)
(* the twist Y^2 = X^3 + bTwist.  The steps take any two coordinates: they *)
(* do not check that a point is on the twist.                              *)
(***************************************************************************)
Ext2Params == {[q |-> 5, bTwist |-> 1], [q |-> 7, bTwist |-> 1]}

E2(t) == 0..(t.q - 1)
g2AffP(t) == [X : E2(t), Y : E2(t)]

Ext2Zero == 0
Ext2Add(t, a, b) == (a + b) % t.q
Ext2Sub(t, a, b) == (a - b) % t.q
Ext2Mul(t, a, b) == (a * b) % t.q
Ext2Square(t, a) == (a * a) % t.q
Ext2IsZero(a) == IF a = Ext2Zero THEN 1 ELSE 0
Ext2Select(b, x, y) == IF b = 1 THEN x ELSE y
Ext2Inverse(t, b) == CHOOSE x \in E2(t) : (x * b) % t.q = 1

\* DivUnchecked(a, b): no solution for a # 0 and b = 0, and any value for
\* 0/0 (free is the value the prover gives then)
Ext2DivUnchecked(t, a, b, free) ==
    IF b = Ext2Zero THEN [val |-> free, sat |-> a = Ext2Zero]
    ELSE [val |-> Ext2Mul(t, a, Ext2Inverse(t, b)), sat |-> TRUE]

\* the values the prover can give to the quotient a/b
Quotients(t, a, b) == IF a = Ext2Zero /\ b = Ext2Zero THEN E2(t) ELSE {Ext2Zero}

addStep(t, p1, p2, free) ==
    LET p2ypy == Ext2Sub(t, p2.Y, p1.Y)
        p2xpx == Ext2Sub(t, p2.X, p1.X)
        lambda == Ext2DivUnchecked(t, p2ypy, p2xpx, free)
        xr == Ext2Sub(t, Ext2Square(t, lambda.val), Ext2Add(t, p1.X, p2.X))
        pxrx == Ext2Sub(t, p1.X, xr)
        lpxrx == Ext2Mul(t, lambda.val, pxrx)
        yr == Ext2Sub(t, lpxrx, p1.Y)
        R1 == Ext2Mul(t, lambda.val, p1.X)
    IN  [point |-> [X |-> xr, Y |-> yr],
         line |-> [R0 |-> lambda.val, R1 |-> Ext2Sub(t, R1, p1.Y)],
         val |-> 0, sat |-> lambda.sat,
         ops |-> <<"Sub", "Sub", "DivUnchecked", "Square", "Add", "Sub",
                   "Sub", "Mul", "Sub", "Mul", "Sub">>]

lineCompute(t, p1, p2, free) ==
    LET qypy == Ext2Add(t, p1.Y, p2.Y)
        qxpx == Ext2Sub(t, p1.X, p2.X)
        lambda == Ext2DivUnchecked(t, qypy, qxpx, free)
        R1 == Ext2Mul(t, lambda.val, p1.X)
    IN  [point |-> [X |-> 0, Y |-> 0],
         line |-> [R0 |-> lambda.val, R1 |-> Ext2Sub(t, R1, p1.Y)],
         val |-> 0, sat |-> lambda.sat,
         ops |-> <<"Add", "Sub", "DivUnchecked", "Mul", "Sub">>]

Ext2Neg(t, a) == (0 - a) % t.q
Ext2MulByConstElement(t, a, c) == (a * c) % t.q

\* doubleAndAddStep without the negation of lambda2
doubleAndAddStep_NoNeg(t, p1, p2, isSub, free1, free2) ==
    LET n1 == IF isSub THEN Ext2Add(t, p1.Y, p2.Y) ELSE Ext2Sub(t, p1.Y, p2.Y)
        d1 == Ext2Sub(t, p1.X, p2.X)
        lambda1 == Ext2DivUnchecked(t, n1, d1, free1)
        x3 == Ext2Sub(t, Ext2Square(t, lambda1.val), Ext2Add(t, p1.X, p2.X))
        n2 == Ext2MulByConstElement(t, p1.Y, 2)
        d2 == Ext2Sub(t, x3, p1.X)
        q2 == Ext2DivUnchecked(t, n2, d2, free2)
        lambda2 == Ext2Add(t, q2.val, lambda1.val)
        x4 == Ext2Sub(t, Ext2Square(t, lambda2), Ext2Add(t, p1.X, x3))
        y4 == Ext2Sub(t, Ext2Mul(t, lambda2, Ext2Sub(t, p1.X, x4)), p1.Y)
    IN  [point |-> [X |-> x4, Y |-> y4],
         line |-> [R0 |-> lambda1.val,
                   R1 |-> Ext2Sub(t, Ext2Mul(t, lambda1.val, p1.X), p1.Y)],
         line2 |-> [R0 |-> lambda2,
                    R1 |-> Ext2Sub(t, Ext2Mul(t, lambda2, p1.X), p1.Y)],
         val |-> 0, sat |-> lambda1.sat /\ q2.sat,
         ops |-> <<IF isSub THEN "Add" ELSE "Sub", "Sub", "DivUnchecked", "Square", "Add",
                   "Sub", "Mul", "Sub", "MulByConstElement", "Sub", "DivUnchecked",
                   "Add", "Square", "Add", "Sub", "Sub", "Mul", "Sub",
                   "Mul", "Sub">>]

doubleAndAddStep(t, p1, p2, isSub, free1, free2) ==
    LET n1 == IF isSub THEN Ext2Add(t, p1.Y, p2.Y) ELSE Ext2Sub(t, p1.Y, p2.Y)
        d1 == Ext2Sub(t, p1.X, p2.X)
        lambda1 == Ext2DivUnchecked(t, n1, d1, free1)
        x3 == Ext2Sub(t, Ext2Square(t, lambda1.val), Ext2Add(t, p1.X, p2.X))
        n2 == Ext2MulByConstElement(t, p1.Y, 2)
        d2 == Ext2Sub(t, x3, p1.X)
        q2 == Ext2DivUnchecked(t, n2, d2, free2)
        lambda2 == Ext2Neg(t, Ext2Add(t, q2.val, lambda1.val))
        x4 == Ext2Sub(t, Ext2Square(t, lambda2), Ext2Add(t, p1.X, x3))
        y4 == Ext2Sub(t, Ext2Mul(t, lambda2, Ext2Sub(t, p1.X, x4)), p1.Y)
    IN  [point |-> [X |-> x4, Y |-> y4],
         line |-> [R0 |-> lambda1.val,
                   R1 |-> Ext2Sub(t, Ext2Mul(t, lambda1.val, p1.X), p1.Y)],
         line2 |-> [R0 |-> lambda2,
                    R1 |-> Ext2Sub(t, Ext2Mul(t, lambda2, p1.X), p1.Y)],
         val |-> 0, sat |-> lambda1.sat /\ q2.sat,
         ops |-> <<IF isSub THEN "Add" ELSE "Sub", "Sub", "DivUnchecked", "Square", "Add",
                   "Sub", "Mul", "Sub", "MulByConstElement", "Sub", "DivUnchecked",
                   "Add", "Neg", "Square", "Add", "Sub", "Sub", "Mul", "Sub",
                   "Mul", "Sub">>]

\* x3 of doubleAndAddStep, the second denominator being x3 - x1
doubleAndAddStep_x3(t, p1, p2, isSub, free1) ==
    LET n1 == IF isSub THEN Ext2Add(t, p1.Y, p2.Y) ELSE Ext2Sub(t, p1.Y, p2.Y)
        lambda1 == Ext2DivUnchecked(t, n1, Ext2Sub(t, p1.X, p2.X), free1)
    IN  Ext2Sub(t, Ext2Square(t, lambda1.val), Ext2Add(t, p1.X, p2.X))

doubleStep(t, p1, free) ==
    LET n == Ext2MulByConstElement(t, Ext2Square(t, p1.X), 3)
        d == Ext2MulByConstElement(t, p1.Y, 2)
        lambda == Ext2DivUnchecked(t, n, d, free)
        xr == Ext2Sub(t, Ext2Square(t, lambda.val), Ext2MulByConstElement(t, p1.X, 2))
        yr == Ext2Sub(t, Ext2Mul(t, lambda.val, Ext2Sub(t, p1.X, xr)), p1.Y)
    IN  [point |-> [X |-> xr, Y |-> yr],
         line |-> [R0 |-> lambda.val,
                   R1 |-> Ext2Sub(t, Ext2Mul(t, lambda.val, p1.X), p1.Y)],
         val |-> 0, sat |-> lambda.sat,
         ops |-> <<"Square", "MulByConstElement", "MulByConstElement", "DivUnchecked",
                   "Square", "MulByConstElement", "Sub", "Sub", "Mul", "Sub",
                   "Mul", "Sub">>]

computeTwistEquation_Or(t, Q) ==
    LET selector == apiOr(Ext2IsZero(Q.X), Ext2IsZero(Q.Y))
        b == Ext2Select(selector, Ext2Zero, t.bTwist)
    IN  [left |-> Ext2Square(t, Q.Y),
         right |-> Ext2Add(t, Ext2Mul(t, Ext2Square(t, Q.X), Q.X), b)]

computeTwistEquation(t, Q) ==
    LET selector == apiAnd(Ext2IsZero(Q.X), Ext2IsZero(Q.Y))
        b == Ext2Select(selector, Ext2Zero, t.bTwist)
    IN  [left |-> Ext2Square(t, Q.Y),
         right |-> Ext2Add(t, Ext2Mul(t, Ext2Square(t, Q.X), Q.X), b)]

AssertIsOnTwist(t, Q) ==
    LET eq == computeTwistEquation(t, Q)
    IN  [NoStep EXCEPT !.sat = (eq.left = eq.right),
                       !.ops = <<"computeTwistEquation", "AssertIsEqual">>]

IsOnTwist(t, Q) ==
    LET eq == computeTwistEquation(t, Q)
        diff == Ext2Sub(t, eq.left, eq.right)
    IN  [NoStep EXCEPT !.val = Ext2IsZero(diff),
                       !.ops = <<"computeTwistEquation", "Sub", "IsZero">>]

InitCurve ==
    /\ FieldIdle
    /\ PairingIdle
    /\ ExpIdle
    /\ GenIdle
    /\ SchemaIdle
    /\ MillerIdle
    /\ MoreIdle
    /\ twist \in Ext2Params
    /\ g2p1 \in g2AffP(twist)
    /\ g2p2 \in g2AffP(twist)
    /\ cop = ""
    /\ cout = NoStep

CallAddStep ==
    /\ \E free \in Quotients(twist, Ext2Sub(twist, g2p2.Y, g2p1.Y), Ext2Sub(twist, g2p2.X, g2p1.X)) :
           cout' = addStep(twist, g2p1, g2p2, free)
    /\ cop' = "addStep"
    /\ UNCHANGED <<twist, g2p1, g2p2, fieldVars, pairingVars, expVars, genVars, schemaVars, millerVars, moreVars>>

CallLineCompute ==
    /\ \E free \in Quotients(twist, Ext2Add(twist, g2p1.Y, g2p2.Y), Ext2Sub(twist, g2p1.X, g2p2.X)) :
           cout' = lineCompute(twist, g2p1, g2p2, free)
    /\ cop' = "lineCompute"
    /\ UNCHANGED <<twist, g2p1, g2p2, fieldVars, pairingVars, expVars, genVars, schemaVars, millerVars, moreVars>>

CallAssertIsOnTwist ==
    /\ cout' = AssertIsOnTwist(twist, g2p1)
    /\ cop' = "AssertIsOnTwist"
    /\ UNCHANGED <<twist, g2p1, g2p2, fieldVars, pairingVars, expVars, genVars, schemaVars, millerVars, moreVars>>

CallIsOnTwist ==
    /\ cout' = IsOnTwist(twist, g2p1)
    /\ cop' = "IsOnTwist"
    /\ UNCHANGED <<twist, g2p1, g2p2, fieldVars, pairingVars, expVars, genVars, schemaVars, millerVars, moreVars>>

CallDoubleStep ==
    /\ \E free \in Quotients(twist, Ext2MulByConstElement(twist, Ext2Square(twist, g2p1.X), 3),
                             Ext2MulByConstElement(twist, g2p1.Y, 2)) :
           cout' = doubleStep(twist, g2p1, free)
    /\ cop' = "doubleStep"
    /\ UNCHANGED <<twist, g2p1, g2p2, fieldVars, pairingVars, expVars, genVars, schemaVars, millerVars, moreVars>>

CallDoubleAndAddStep ==
    /\ \E isSub \in BOOLEAN :
        \E free1 \in Quotients(twist,
                IF isSub THEN Ext2Add(twist, g2p1.Y, g2p2.Y) ELSE Ext2Sub(twist, g2p1.Y, g2p2.Y),
                Ext2Sub(twist, g2p1.X, g2p2.X)) :
        \E free2 \in Quotients(twist, Ext2MulByConstElement(twist, g2p1.Y, 2),
                Ext2Sub(twist, doubleAndAddStep_x3(twist, g2p1, g2p2, isSub, free1), g2p1.X)) :
            /\ cout' = doubleAndAddStep(twist, g2p1, g2p2, isSub, free1, free2)
            /\ cop' = IF isSub THEN "doubleAndAddStep isSub" ELSE "doubleAndAddStep"
    /\ UNCHANGED <<twist, g2p1, g2p2, fieldVars, pairingVars, expVars, genVars, schemaVars, millerVars, moreVars>>

NextCurve ==
    \/ CallAddStep
    \/ CallDoubleStep
    \/ CallDoubleAndAddStep
    \/ CallLineCompute
    \/ CallAssertIsOnTwist
    \/ CallIsOnTwist

SpecCurve == InitCurve /\ [][NextCurve]_vars

\* C14: lineCompute(p1, p2) returns the line through p1 and p2: for
\* x1 # x2 its slope is (y2 - y1)/(x2 - x1) and its intercept is
\* slope * x1 - y1, the line that addStep(p1, p2) returns, and it computes
\* no point.
C14_LineThroughBoth ==
    (cop = "lineCompute" /\ g2p1.X # g2p2.X) =>
        /\ Ext2Mul(twist, cout.line.R0, Ext2Sub(twist, g2p2.X, g2p1.X)) = Ext2Sub(twist, g2p2.Y, g2p1.Y)
        /\ cout.line.R1 = Ext2Sub(twist, Ext2Mul(twist, cout.line.R0, g2p1.X), g2p1.Y)
        /\ cout.line = addStep(twist, g2p1, g2p2, Ext2Zero).line
        /\ \A j \in 1..Len(cout.ops) : cout.ops[j] # "Square"

\* C15: AssertIsOnTwist(Q) is satisfiable, and IsOnTwist(Q) returns 1,
\* exactly when Q = (0,0) or Y^2 = X^3 + bTwist: a point with one zero
\* coordinate is checked against the equation with bTwist.
OnTwist(t, Q) ==
    \/ Q.X = 0 /\ Q.Y = 0
    \/ (Q.Y * Q.Y) % t.q = (Q.X * Q.X * Q.X + t.bTwist) % t.q

C15_OnTwistIffEquation ==
    /\ cop = "AssertIsOnTwist" => (cout.sat <=> OnTwist(twist, g2p1))
    /\ cop = "IsOnTwist" => (cout.val = 1 <=> OnTwist(twist, g2p1)) /\ cout.val \in {0, 1}

\* a point of the twist with X = 0 and Y # 0 has been accepted
C15_Witness ==
    /\ cop = "AssertIsOnTwist"
    /\ g2p1.X = 0 /\ g2p1.Y # 0
    /\ cout.sat

\* C16: AssertIsDifferent(a, b) is satisfiable exactly when a and b are not
\* congruent modulo the modulus: the one assertion it emits constrains
\* IsZero(a - b) to be 0 (the prover's loose reduction of a - b being the
\* reduced value itself, and the limbs of a and b within their widths).
C16_DifferentIffNotCongruent ==
    (op = "AssertIsDifferent" /\ eff.panic = "") =>
        /\ eff.sat => (Value(fp, e) - Value(fp, arg)) % Modulus(fp) # 0
        /\ eff.sat => ret = <<0>>
        /\ eff.asserts = 1
        /\ Value(fp, reduced) % Modulus(fp) = (Value(fp, e) - Value(fp, arg)) % Modulus(fp)
        /\ ( /\ (Value(fp, e) - Value(fp, arg)) % Modulus(fp) # 0
             /\ Then(enforceWidthConditional(fp, e), enforceWidthConditional(fp, arg)).sat
             /\ Value(fp, reduced) < Modulus(fp) )
           => eff.sat

\* two elements with overflow-free limbs that differ by less than the modulus
\* pass, the first one holding a value above the modulus
C16_Witness ==
    /\ op = "AssertIsDifferent" /\ eff.panic = "" /\ eff.sat
    /\ ~e.const /\ ~arg.const
    /\ Value(fp, e) > Modulus(fp)
    /\ Value(fp, e) # Value(fp, arg)

\* C17: the fixed G2 generator of a Pairing is built once: the first call of
\* generators() builds it, and every later call on the same Pairing returns
\* this first point without building another.
C17_GeneratorBuiltOnce ==
    /\ nBuilt <= 1
    /\ nGen >= 1 => nBuilt = 1 /\ genRet = 1

(***************************************************************************)
(* The walk of a circuit struct (package schema).  A circuit is the list   *)
(* of its fields in the order the walk meets them: each field has its      *)
(* depth in the struct (1 for a field of the circuit itself), the          *)
(* visibility its gnark tag gives (Unset without one), and is a leaf (a    *)
(* variable) or a struct.                                                  *)
(***************************************************************************)
\* the number of fields of a generated circuit, and their depth
MaxFields == 3
MaxDepth == 3

Field(depth, vis, leaf) == [depth |-> depth, vis |-> vis, leaf |-> leaf]

Fields ==
    {Field(d, v, l) : d \in 1..MaxDepth, v \in {Unset, Public, Secret}, l \in BOOLEAN}

\* a field can follow the list c: it is a field of the circuit, a sibling of
\* the last field or of one of its enclosing structs, or the first field of
\* the last one when that is a struct
Follows(c, fd) ==
    IF c = <<>> THEN fd.depth = 1
    ELSE fd.depth <= c[Len(c)].depth + (IF c[Len(c)].leaf THEN 0 ELSE 1)

RECURSIVE CircuitsOf(_)
CircuitsOf(n) ==
    IF n = 0 THEN {<<>>}
    ELSE UNION {{Append(c, fd) : fd \in {g \in Fields : Follows(c, g)}} :
                    c \in CircuitsOf(n - 1)}

\* type circuitInherit1
circuitInherit1 ==
    <<Field(1, Unset, TRUE),
      Field(1, Public, FALSE), Field(2, Unset, TRUE), Field(2, Unset, TRUE)>>

\* type circuitInherit2
circuitInherit2 ==
    <<Field(1, Unset, FALSE), Field(2, Secret, TRUE),
      Field(1, Public, FALSE), Field(2, Public, TRUE),
          Field(2, Unset, FALSE), Field(3, Unset, TRUE), Field(3, Unset, TRUE)>>

Circuits ==
    UNION {CircuitsOf(n) : n \in 1..MaxFields} \cup {circuitInherit1, circuitInherit2}

\* a field without a tag that takes nothing from the path
visibility_NoInherit(stack, fd) == fd.vis

\* the visibility of a field met under the structs of the path: its own, or
\* that of the struct it is in
visibility(stack, fd) ==
    IF fd.vis # Unset THEN fd.vis
    ELSE IF stack = <<>> THEN Unset
    ELSE stack[Len(stack)]

\* a leaf that is still Unset is Secret
leafVisibility(stack, fd) ==
    IF visibility(stack, fd) = Unset THEN Secret ELSE visibility(stack, fd)

InitSchema ==
    /\ FieldIdle
    /\ PairingIdle
    /\ ExpIdle
    /\ CurveIdle
    /\ GenIdle
    /\ MillerIdle
    /\ MoreIdle
    /\ circuit \in Circuits
    /\ pos = 1
    /\ path = <<>>
    /\ count = [Secret |-> 0, Public |-> 0]
    /\ leaves = [i \in 1..Len(circuit) |-> Unset]

notSchema == <<fieldVars, pairingVars, expVars, curveVars, genVars, millerVars, moreVars>>

\* the walk leaves a struct: the next field is not inside it, or there is no
\* next field
ExitStruct ==
    /\ path # <<>>
    /\ IF pos > Len(circuit) THEN TRUE ELSE circuit[pos].depth <= Len(path)
    /\ path' = SubSeq(path, 1, Len(path) - 1)
    /\ UNCHANGED <<circuit, pos, count, leaves, notSchema>>

\* the walk enters a field that is a struct
StructField ==
    /\ pos <= Len(circuit)
    /\ circuit[pos].depth = Len(path) + 1
    /\ ~circuit[pos].leaf
    /\ path' = Append(path, visibility(path, circuit[pos]))
    /\ pos' = pos + 1
    /\ UNCHANGED <<circuit, count, leaves, notSchema>>

\* the walk reaches a leaf
Leaf ==
    /\ pos <= Len(circuit)
    /\ circuit[pos].depth = Len(path) + 1
    /\ circuit[pos].leaf
    /\ \E v \in {leafVisibility(path, circuit[pos])} :
        /\ leaves' = [leaves EXCEPT ![pos] = v]
        /\ count' = IF v = Public THEN [count EXCEPT !.Public = @ + 1]
                    ELSE [count EXCEPT !.Secret = @ + 1]
    /\ pos' = pos + 1
    /\ UNCHANGED <<circuit, path, notSchema>>

NextSchema ==
    \/ ExitStruct
    \/ StructField
    \/ Leaf

SpecSchema == InitSchema /\ [][NextSchema]_vars

\* the structs that enclose field i
Enclosing(c, i) ==
    {j \in 1..(i - 1) :
        /\ ~c[j].leaf
        /\ c[j].depth < c[i].depth
        /\ \A k \in (j + 1)..(i - 1) : c[k].depth > c[j].depth}

\* the enclosing structs of field i that have a visibility tag
Tagged(c, i) == {j \in Enclosing(c, i) : c[j].vis # Unset}

Resulting(c, i) ==
    IF c[i].vis # Unset THEN c[i].vis
    ELSE IF Tagged(c, i) = {} THEN Secret
    ELSE c[CHOOSE j \in Tagged(c, i) : \A k \in Tagged(c, i) : k <= j].vis

LeavesOf(c, v) == {i \in 1..Len(c) : c[i].leaf /\ Resulting(c, i) = v}

Walked == pos > Len(circuit)

MaxFoldPairs == 5

\* the table with the digit 2 at index 3
loopCounter_Invalid ==
    <<0, 0, 0, 2, 0, 1, 0, -1, 0, 0, -1,
      0, 0, 0, 1, 0, 0, -1, 0, -1, 0, 0,
      0, 1, 0, -1, 0, 0, 0, 0, -1, 0, 0,
      1, 0, -1, 0, 0, 1, 0, 0, 0, 0, 0,
      -1, 0, 0, -1, 0, 1, 0, -1, 0, 0, 0,
      -1, 0, -1, 0, 0, 0, 1, 0, -1, 0, 1>>

loopCounter ==
    <<0, 0, 0, 1, 0, 1, 0, -1, 0, 0, -1,
      0, 0, 0, 1, 0, 0, -1, 0, -1, 0, 0,
      0, 1, 0, -1, 0, 0, 0, 0, -1, 0, 0,
      1, 0, -1, 0, 0, 1, 0, 0, 0, 0, 0,
      -1, 0, 0, -1, 0, 1, 0, -1, 0, 0, 0,
      -1, 0, -1, 0, 0, 0, 1, 0, -1, 0, 1>>

\* loopCounter[i], the table being indexed from 0
Digit(i) == loopCounter[i + 1]

\* lines[k][j][i]
Line(k, j, i) == <<k, j, i>>

Fold(name, i, ls) == [op |-> name, i |-> i, lines |-> ls]

\* i = 64: res is set to the line of pair 0, then multiplied by the line of
\* every further pair
firstPosition(n) ==
    <<Fold("assign", 64, <<Line(0, 0, 64)>>)>>
    \o (IF n >= 2 THEN <<Fold("Mul034By034", 64, <<Line(1, 0, 64)>>)>> ELSE <<>>)
    \o (IF n >= 3
        THEN <<Fold("Mul01234By034", 64, <<Line(2, 0, 64)>>)>>
             \o [t \in 1..(n - 3) |-> Fold("MulBy034", 64, <<Line(t + 2, 0, 64)>>)]
        ELSE <<>>)

\* for k := 1; k < n; k += 2
twoByTwo(n, i) ==
    [t \in 1..(n \div 2) |->
        Fold("MulBy01234", i, <<Line(2 * t - 1, 0, i), Line(2 * t - 2, 0, i)>>)]

\* the branch loopCounter[i] == 0 without the line of the last pair
zeroDigit_NoLast(n, i) == twoByTwo(n, i)

\* the branch loopCounter[i] == 0
zeroDigit(n, i) ==
    (IF n % 2 # 0 THEN <<Fold("MulBy034", i, <<Line(n - 1, 0, i)>>)>> ELSE <<>>)
    \o twoByTwo(n, i)

\* the branch loopCounter[i] != 0
nonZeroDigit(n, i) ==
    [t \in 1..n |-> Fold("MulBy01234", i, <<Line(t - 1, 0, i), Line(t - 1, 1, i)>>)]

\* the lines at index 65, after the loop
lastLines(n) ==
    [t \in 1..n |-> Fold("MulBy01234", 65, <<Line(t - 1, 0, 65), Line(t - 1, 1, 65)>>)]

\* the position of millerLoopLines once it has returned
Returned == -2

InitMiller ==
    /\ FieldIdle
    /\ PairingIdle
    /\ ExpIdle
    /\ CurveIdle
    /\ GenIdle
    /\ SchemaIdle
    /\ MoreIdle
    /\ nPairs \in 1..MaxFoldPairs
    /\ loopPos = 64
    /\ folds = <<>>

notMiller == <<fieldVars, pairingVars, expVars, curveVars, genVars, schemaVars, moreVars>>

FirstPosition ==
    /\ loopPos = 64
    /\ folds' = folds \o firstPosition(nPairs)
    /\ loopPos' = 63
    /\ UNCHANGED <<nPairs, notMiller>>

IterateZero ==
    /\ loopPos \in 0..63
    /\ Digit(loopPos) = 0
    /\ folds' = folds \o <<Fold("Square", loopPos, <<>>)>> \o zeroDigit(nPairs, loopPos)
    /\ loopPos' = loopPos - 1
    /\ UNCHANGED <<nPairs, notMiller>>

IterateNonZero ==
    /\ loopPos \in 0..63
    /\ Digit(loopPos) # 0
    /\ folds' = folds \o <<Fold("Square", loopPos, <<>>)>> \o nonZeroDigit(nPairs, loopPos)
    /\ loopPos' = loopPos - 1
    /\ UNCHANGED <<nPairs, notMiller>>

LastLines ==
    /\ loopPos = -1
    /\ folds' = folds \o lastLines(nPairs)
    /\ loopPos' = Returned
    /\ UNCHANGED <<nPairs, notMiller>>

NextMiller ==
    \/ FirstPosition
    \/ IterateZero
    \/ IterateNonZero
    \/ LastLines

SpecMiller == InitMiller /\ [][NextMiller]_vars

\* the number of times the line l has been folded into res
TimesFolded(l) ==
    Cardinality({<<t, u>> \in (1..Len(folds)) \X (1..2) :
                    u <= Len(folds[t].lines) /\ folds[t].lines[u] = l})

\* the folds and the squarings at position i
FoldsAt(i) == {t \in 1..Len(folds) : folds[t].i = i /\ folds[t].op # "Square"}
SquaresAt(i) == {t \in 1..Len(folds) : folds[t].i = i /\ folds[t].op = "Square"}

\* the lines that belong to position i
Expected(n, i) ==
    IF i = 64 THEN {Line(k, 0, 64) : k \in 0..(n - 1)}
    ELSE IF i = 65 \/ Digit(i) # 0 THEN {Line(k, j, i) : k \in 0..(n - 1), j \in {0, 1}}
    ELSE {Line(k, 0, i) : k \in 0..(n - 1)}

\* C20: when millerLoopLines returns, every line the position calls for has
\* been folded exactly once and no other line has: [k][0][64] without a
\* squaring, at every i from 63 down to 0 one squaring before the folds of i
\* and then [k][0][i] (the last pair alone for odd n, the others two by two)
\* or, for a non-zero digit, [k][0][i] and [k][1][i], and after the loop both
\* lines at index 65.
C20_EveryLineOnce ==
    loopPos = Returned =>
        /\ \A i \in 0..65 : \A k \in 0..(nPairs - 1) : \A j \in {0, 1} :
              TimesFolded(Line(k, j, i)) = IF Line(k, j, i) \in Expected(nPairs, i) THEN 1 ELSE 0
        /\ SquaresAt(64) = {} /\ SquaresAt(65) = {}
        /\ \A i \in 0..63 :
              /\ Cardinality(SquaresAt(i)) = 1
              /\ \A s \in SquaresAt(i) :
                    /\ \A t \in FoldsAt(i) : s < t
                    /\ \A t \in FoldsAt(i + 1) : t < s
        /\ \A t \in FoldsAt(65) : \A u \in FoldsAt(0) : u < t
        /\ \A i \in 0..63 : Digit(i) = 0 =>
              /\ \A t \in FoldsAt(i) :
                    Len(folds[t].lines) = 1 <=> folds[t].lines = <<Line(nPairs - 1, 0, i)>>
              /\ Cardinality({t \in FoldsAt(i) : Len(folds[t].lines) = 1}) = nPairs % 2

\* millerLoopLines has returned for three pairs: at position 62, a zero
\* digit, pair 2 was folded alone and pairs 1 and 0 together
C20_Witness ==
    /\ loopPos = Returned
    /\ nPairs = 3
    /\ \E t \in FoldsAt(62) : folds[t].lines = <<Line(2, 0, 62)>>
    /\ \E t \in FoldsAt(62) : folds[t].lines = <<Line(1, 0, 62), Line(0, 0, 62)>>

(***************************************************************************)
(* Position 64 of millerLoopLines, on values.  The tower is a small one: a *)
(* prime field of q elements stands for E2, E6 is E2[v]/(v^3 - xi) and E12 *)
(* is E6[w]/(w^2 - v), so that an element of E12 is a polynomial of degree *)
(* below 6 in w with w^6 = xi.                                             *)
(***************************************************************************)
SparseParams == {[q |-> 3, xi |-> 2]}

GTEl(c0b0, c0b1, c0b2, c1b0, c1b1, c1b2) ==
    [C0 |-> [B0 |-> c0b0, B1 |-> c0b1, B2 |-> c0b2],
     C1 |-> [B0 |-> c1b0, B1 |-> c1b1, B2 |-> c1b2]]

Ext12One == GTEl(1, 0, 0, 0, 0, 0)

\* the coefficients of 1, w, w^2 = v, w^3, w^4 = v^2, w^5
Coefs(x) == <<x.C0.B0, x.C1.B0, x.C0.B1, x.C1.B1, x.C0.B2, x.C1.B2>>

\* the coefficient of w^k of the product of a and b, with w^6 = xi
ProductCoef(t, a, b, k) ==
    LET Term(i) == a[i + 1] * b[((k - i) % 6) + 1] * (IF i <= k THEN 1 ELSE t.xi)
    IN  (Term(0) + Term(1) + Term(2) + Term(3) + Term(4) + Term(5)) % t.q

Ext12Mul(t, x, y) ==
    LET a == Coefs(x)
        b == Coefs(y)
    IN  GTEl(ProductCoef(t, a, b, 0), ProductCoef(t, a, b, 2), ProductCoef(t, a, b, 4),
             ProductCoef(t, a, b, 1), ProductCoef(t, a, b, 3), ProductCoef(t, a, b, 5))

Ext12Square(t, x) == Ext12Mul(t, x, x)

\* the sparse element (1, 0, 0, c3, c4, 0)
Sparse034(c3, c4) == GTEl(1, 0, 0, c3, c4, 0)

\* MulBy034(z, c3, c4): z times (1, 0, 0, c3, c4, 0)
Ext12MulBy034(t, z, c3, c4) == Ext12Mul(t, z, Sparse034(c3, c4))

\* Mul034By034(d3, d4, c3, c4): the five coefficients C0.B0, C0.B1, C0.B2,
\* C1.B0, C1.B1 of (1, 0, 0, d3, d4, 0) times (1, 0, 0, c3, c4, 0)
Ext12Mul034By034(t, d3, d4, c3, c4) ==
    LET z == Ext12Mul(t, Sparse034(d3, d4), Sparse034(c3, c4))
    IN  <<z.C0.B0, z.C0.B1, z.C0.B2, z.C1.B0, z.C1.B1>>

\* Mul01234By034(x, z3, z4): (x0, x1, x2, x3, x4, 0) times (1, 0, 0, z3, z4, 0)
Ext12Mul01234By034(t, x, z3, z4) ==
    Ext12Mul(t, GTEl(x[1], x[2], x[3], x[4], x[5], 0), Sparse034(z3, z4))

\* MulByElement(a, el): an element of E2 times an element of the base field
MulByElement(t, a, el) == (a * el) % t.q

\* k = 0: the line is assigned to res
firstPair(t, rs, l, pt) ==
    [C0 |-> rs.C0,
     C1 |-> [B0 |-> MulByElement(t, l.R0, pt.xNegOverY),
             B1 |-> MulByElement(t, l.R1, pt.yInv),
             B2 |-> rs.C1.B2]]

\* k = 1 with the last two coefficients of the product exchanged
secondPair_Swapped(t, rs, l, pt) ==
    LET pl == Ext12Mul034By034(t, MulByElement(t, l.R0, pt.xNegOverY),
                               MulByElement(t, l.R1, pt.yInv), rs.C1.B0, rs.C1.B1)
    IN  [prodLines |-> pl,
         res |-> [C0 |-> [B0 |-> pl[1], B1 |-> pl[2], B2 |-> pl[3]],
                  C1 |-> [B0 |-> pl[5], B1 |-> pl[4], B2 |-> rs.C1.B2]]]

\* k = 1: the product of the two lines
secondPair(t, rs, l, pt) ==
    LET pl == Ext12Mul034By034(t, MulByElement(t, l.R0, pt.xNegOverY),
                               MulByElement(t, l.R1, pt.yInv), rs.C1.B0, rs.C1.B1)
    IN  [prodLines |-> pl,
         res |-> [C0 |-> [B0 |-> pl[1], B1 |-> pl[2], B2 |-> pl[3]],
                  C1 |-> [B0 |-> pl[4], B1 |-> pl[5], B2 |-> rs.C1.B2]]]

\* k = 2: the product of the two lines times the third one
thirdPair(t, pl, l, pt) ==
    Ext12Mul01234By034(t, pl, MulByElement(t, l.R0, pt.xNegOverY),
                       MulByElement(t, l.R1, pt.yInv))

\* k >= 3
furtherPair(t, rs, l, pt) ==
    Ext12MulBy034(t, rs, MulByElement(t, l.R0, pt.xNegOverY),
                  MulByElement(t, l.R1, pt.yInv))

\* the line of a pair at position 64 and the values computed from its G1 point
LinesAt64(t) == [R0 : 0..(t.q - 1), R1 : 0..(t.q - 1)]
Precomputed(t) == [xNegOverY : 0..(t.q - 1), yInv : 1..(t.q - 1)]

\* res times the line l evaluated at pt
TimesLine(t, rs, l, pt) ==
    Ext12Mul(t, rs, Sparse034(MulByElement(t, l.R0, pt.xNegOverY),
                              MulByElement(t, l.R1, pt.yInv)))

InitFirst ==
    /\ FieldIdle
    /\ PairingIdle
    /\ ExpIdle
    /\ CurveIdle
    /\ GenIdle
    /\ SchemaIdle
    /\ MillerIdle
    /\ HintIdle
    /\ G2Idle
    /\ sparse \in SparseParams
    /\ n64 \in 1..MaxFoldPairs
    /\ k64 = 0
    /\ res64 = Ext12One
    /\ prod64 = <<>>
    /\ ref64 = Ext12Square(sparse, Ext12One)

notFirst ==
    <<fieldVars, pairingVars, expVars, curveVars, genVars, schemaVars, millerVars,
      hintVars, g2Vars>>

FirstPair ==
    /\ k64 = 0
    /\ \E l \in LinesAt64(sparse), pt \in Precomputed(sparse) :
        /\ res64' = firstPair(sparse, res64, l, pt)
        /\ ref64' = TimesLine(sparse, ref64, l, pt)
    /\ k64' = 1
    /\ UNCHANGED <<sparse, n64, prod64, notFirst>>

SecondPair ==
    /\ k64 = 1
    /\ n64 >= 2
    /\ \E l \in LinesAt64(sparse), pt \in Precomputed(sparse) :
        /\ \E r \in {secondPair(sparse, res64, l, pt)} :
            /\ res64' = r.res
            /\ prod64' = r.prodLines
        /\ ref64' = TimesLine(sparse, ref64, l, pt)
    /\ k64' = 2
    /\ UNCHANGED <<sparse, n64, notFirst>>

ThirdPair ==
    /\ k64 = 2
    /\ n64 >= 3
    /\ \E l \in LinesAt64(sparse), pt \in Precomputed(sparse) :
        /\ res64' = thirdPair(sparse, prod64, l, pt)
        /\ ref64' = TimesLine(sparse, ref64, l, pt)
    /\ k64' = 3
    /\ UNCHANGED <<sparse, n64, prod64, notFirst>>

FurtherPair ==
    /\ k64 >= 3
    /\ k64 < n64
    /\ \E l \in LinesAt64(sparse), pt \in Precomputed(sparse) :
        /\ res64' = furtherPair(sparse, res64, l, pt)
        /\ ref64' = TimesLine(sparse, ref64, l, pt)
    /\ k64' = k64 + 1
    /\ UNCHANGED <<sparse, n64, prod64, notFirst>>

NextFirst ==
    \/ FirstPair
    \/ SecondPair
    \/ ThirdPair
    \/ FurtherPair

SpecFirst == InitFirst /\ [][NextFirst]_vars

\* C21: once the lines of all n pairs are in (n = 1: res set to the line,
\* n = 2: the sparse product of two lines, n >= 3: one multiplication per
\* further pair), res is One squared times the position-64 line of every
\* pair.
C21_FirstPositionValue == k64 = n64 => res64 = ref64

\* three pairs with lines that are not the identity have been folded
C21_Witness ==
    /\ n64 = 3 /\ k64 = 3
    /\ res64 = ref64
    /\ res64.C0.B2 # 0 /\ res64.C1.B0 # 0 /\ res64.C1.B1 # 0

(***************************************************************************)
(* The loop of millerLoopAndFinalExpResult.  The accumulator is followed   *)
(* as a product of powers of residueWitnessInv, of the lines and of        *)
(* previous: an exponent is the sequence of its signed binary digits, top  *)
(* digit first, so that a squaring appends a digit 0 and a multiplication  *)
(* adds to the last digit.                                                 *)
(***************************************************************************)
\* lines[j][i] of the single pair, j in 0..1, i in 0..65
AllLines == {Line(0, j, i) : j \in {0, 1}, i \in 0..65}

PowOne == [w |-> <<>>, previous |-> <<>>, lines |-> [l \in AllLines |-> <<>>]]

\* the exponent ex doubled, and ex plus d
Doubled(ex) == IF ex = <<>> THEN <<>> ELSE Append(ex, 0)
Plus(ex, d) == IF ex = <<>> THEN <<d>> ELSE [ex EXCEPT ![Len(ex)] = @ + d]

PowSquare(a) ==
    [w |-> Doubled(a.w), previous |-> Doubled(a.previous),
     lines |-> [l \in AllLines |-> Doubled(a.lines[l])]]

\* a times residueWitnessInv^d; residueWitness is residueWitnessInv^-1
PowMulWitnessInv(a, d) == [a EXCEPT !.w = Plus(@, d)]

\* a times the lines of ls
PowMulLines(a, ls) ==
    [a EXCEPT !.lines = [l \in AllLines |->
        IF \E u \in 1..Len(ls) : ls[u] = l
        THEN Plus(a.lines[l], Cardinality({u \in 1..Len(ls) : ls[u] = l}))
        ELSE a.lines[l]]]

PowMulPrevious(a) == [a EXCEPT !.previous = Plus(@, 1)]

\* the switch on loopCounter[i] that multiplies by residueWitness for the
\* digit 1 and by residueWitnessInv for the digit -1
switchDigit_Swapped(a, i) ==
    CASE Digit(i) = 0 ->
            [acc |-> PowMulLines(a, <<Line(0, 0, i)>>), panic |-> ""]
      [] Digit(i) = 1 ->
            [acc |-> PowMulLines(PowMulWitnessInv(a, -1), <<Line(0, 0, i), Line(0, 1, i)>>),
             panic |-> ""]
      [] Digit(i) = -1 ->
            [acc |-> PowMulLines(PowMulWitnessInv(a, 1), <<Line(0, 0, i), Line(0, 1, i)>>),
             panic |-> ""]
      [] OTHER ->
            [acc |-> a, panic |-> "invalid loop counter value " \o ToString(Digit(i))]

\* switch loopCounter[i]
switchDigit(a, i) ==
    CASE Digit(i) = 0 ->
            [acc |-> PowMulLines(a, <<Line(0, 0, i)>>), panic |-> ""]
      [] Digit(i) = 1 ->
            [acc |-> PowMulLines(PowMulWitnessInv(a, 1), <<Line(0, 0, i), Line(0, 1, i)>>),
             panic |-> ""]
      [] Digit(i) = -1 ->
            [acc |-> PowMulLines(PowMulWitnessInv(a, -1), <<Line(0, 0, i), Line(0, 1, i)>>),
             panic |-> ""]
      [] OTHER ->
            [acc |-> a, panic |-> "invalid loop counter value " \o ToString(Digit(i))]

InitHint ==
    /\ FieldIdle
    /\ PairingIdle
    /\ ExpIdle
    /\ CurveIdle
    /\ GenIdle
    /\ SchemaIdle
    /\ MillerIdle
    /\ FirstIdle
    /\ G2Idle
    /\ hintPos = 64
    /\ hintPhase = "Square"
    /\ hintAcc = PowMulWitnessInv(PowOne, 1)
    /\ hintPanic = ""

notHint ==
    <<fieldVars, pairingVars, expVars, curveVars, genVars, schemaVars, millerVars,
      firstVars, g2Vars>>

HintSquare ==
    /\ hintPanic = ""
    /\ hintPhase = "Square"
    /\ hintAcc' = PowSquare(hintAcc)
    /\ hintPhase' = "switch"
    /\ UNCHANGED <<hintPos, hintPanic, notHint>>

HintSwitch ==
    /\ hintPanic = ""
    /\ hintPhase = "switch"
    /\ \E r \in {switchDigit(hintAcc, hintPos)} :
        /\ hintAcc' = r.acc
        /\ hintPanic' = r.panic
    /\ hintPos' = hintPos - 1
    /\ hintPhase' = IF hintPos = 0 THEN "lines 65" ELSE "Square"
    /\ UNCHANGED notHint

HintLastLines ==
    /\ hintPanic = ""
    /\ hintPhase = "lines 65"
    /\ hintAcc' = PowMulLines(hintAcc, <<Line(0, 0, 65), Line(0, 1, 65)>>)
    /\ hintPhase' = "previous"
    /\ UNCHANGED <<hintPos, hintPanic, notHint>>

HintMulPrevious ==
    /\ hintPanic = ""
    /\ hintPhase = "previous"
    /\ hintAcc' = PowMulPrevious(hintAcc)
    /\ hintPhase' = "check"
    /\ UNCHANGED <<hintPos, hintPanic, notHint>>

NextHint ==
    \/ HintSquare
    \/ HintSwitch
    \/ HintLastLines
    \/ HintMulPrevious

SpecHint == InitHint /\ [][NextHint]_vars

\* the operations of millerLoopLines on res for n pairs, from position i
\* down to the end
RECURSIVE MillerFolds(_, _)
MillerFolds(n, i) ==
    IF i = 64 THEN firstPosition(n) \o MillerFolds(n, 63)
    ELSE IF i < 0 THEN lastLines(n)
    ELSE <<Fold("Square", i, <<>>)>>
         \o (IF Digit(i) = 0 THEN zeroDigit(n, i) ELSE nonZeroDigit(n, i))
         \o MillerFolds(n, i - 1)

\* the number of squarings among the operations fs after the u-th
SquaresAfter(fs, u) ==
    Cardinality({s \in (u + 1)..Len(fs) : fs[s].op = "Square"})

\* the exponent the line l has in the value the operations fs leave in res:
\* every multiplication by l counts 2^(squarings that follow it)
ExponentOf(fs, l) ==
    LET uses == {uv \in UNION {{<<u, v>> : v \in 1..Len(fs[u].lines)} : u \in 1..Len(fs)} :
                    fs[uv[1]].lines[uv[2]] = l}
        top  == CHOOSE t \in {SquaresAfter(fs, uv[1]) : uv \in uses} :
                    \A uv \in uses : SquaresAfter(fs, uv[1]) <= t
    IN  IF uses = {} THEN <<>>
        ELSE [k \in 1..(top + 1) |->
                Cardinality({uv \in uses : SquaresAfter(fs, uv[1]) = top + 1 - k})]

\* MillerLoop([P], [Q]): the exponent of every line
MillerLoopPower ==
    With(MillerFolds(1, 64), LAMBDA fs : [l \in AllLines |-> ExponentOf(fs, l)])

\* the digits of loopCounter, top digit first
TopFirst == [u \in 1..66 |-> Digit(66 - u)]

\* C22: just before the multiplication by previous the accumulator is
\* MillerLoop([P],[Q]) times residueWitnessInv to the exponent whose signed
\* binary digits are those of loopCounter: every line has the exponent it
\* has in MillerLoop, and residueWitnessInv has digit 1 at index 65 and the
\* digit loopCounter[i] at every position i, previous not being in yet.
C22_HintLoopValue ==
    hintPhase = "previous" =>
        /\ hintAcc.lines = MillerLoopPower
        /\ hintAcc.w = TopFirst
        /\ hintAcc.previous = <<>>
        /\ hintPanic = ""

\* the loop has run to the end: the line of position 64 has been squared 64
\* times, the lines of index 65 not at all
C22_Witness ==
    /\ hintPhase = "previous"
    /\ Len(hintAcc.lines[Line(0, 0, 64)]) = 65
    /\ hintAcc.lines[Line(0, 1, 65)] = <<1>>
    /\ Len(hintAcc.w) = 66


(***************************************************************************)
(* The value of the loopCounter table.  6x0+2 has twenty decimal digits,   *)
(* so a number is the sequence of its decimal digits, lowest first.        *)
(***************************************************************************)
\* s * m + c for the decimal number s and the integers m > 0 and c
RECURSIVE TimesPlus(_, _, _)
TimesPlus(s, m, c) ==
    IF s = <<>>
    THEN (IF c = 0 THEN <<>> ELSE <<c % 10>> \o TimesPlus(<<>>, m, c \div 10))
    ELSE <<(m * Head(s) + c) % 10>>
         \o TimesPlus(Tail(s), m, (m * Head(s) + c) \div 10)

\* the sum of loopCounter[j] * 2^(j - i) over j = i..hi
RECURSIVE NafPart(_, _)
NafPart(i, hi) ==
    IF i > hi THEN 0 ELSE Digit(i) + 2 * NafPart(i + 1, hi)

\* the sum of loopCounter[i] * 2^i over i = 0..65, put together from the
\* digits 65..44, 43..22 and 21..0
NafValue ==
    With(TimesPlus(<<>>, 2^22, NafPart(44, 65)), LAMBDA top :
        With(TimesPlus(top, 2^22, NafPart(22, 43)), LAMBDA mid :
            TimesPlus(mid, 2^22, NafPart(0, 21))))

\* 6x0+2 = 29793968203157093288, highest decimal digit first
SixX0Plus2 == <<2, 9, 7, 9, 3, 9, 6, 8, 2, 0, 3, 1, 5, 7, 0, 9, 3, 2, 8, 8>>

Reversed(s) == [u \in 1..Len(s) |-> s[Len(s) + 1 - u]]

\* C23: loopCounter is a 2-NAF encoding of 6x0+2: it has 66 digits, each
\* -1, 0 or 1, no two adjacent digits are both non-zero, the digit of index
\* 65 is 1, and the sum of loopCounter[i] * 2^i is 29793968203157093288; and
\* the loop of millerLoopAndFinalExpResult never takes the default branch of
\* its switch.
C23_LoopCounterIsNaf ==
    /\ Len(loopCounter) = 66
    /\ \A i \in 0..65 : Digit(i) \in {-1, 0, 1}
    /\ \A i \in 0..64 : Digit(i) = 0 \/ Digit(i + 1) = 0
    /\ Digit(65) = 1
    /\ NafValue = Reversed(SixX0Plus2)
    /\ hintPanic = ""

\* the switch has been taken at every position 64..0
C23_Witness ==
    /\ hintPhase = "lines 65"
    /\ hintPos = -1
    /\ hintPanic = ""
    /\ hintAcc.w = TopFirst


(***************************************************************************)
(* The group law of the curve Y^2 = X^3 + b, by chord and tangent: P, Q    *)
(* and -R are the three points, with their multiplicities, at which one    *)
(* line meets the curve.                                                   *)
(***************************************************************************)
OnCurve(t, P) == (P.Y * P.Y) % t.q = (P.X * P.X * P.X + t.bTwist) % t.q
CurveNeg(t, P) == [X |-> P.X, Y |-> (0 - P.Y) % t.q]
Infinity == [X |-> -1, Y |-> -1]

\* the line Y = l * X + c meets the curve at P, Q and -R
MeetsAt(t, l, c, P, Q, R) ==
    /\ P.Y = (l * P.X + c) % t.q
    /\ Q.Y = (l * Q.X + c) % t.q
    /\ (0 - R.Y) % t.q = (l * R.X + c) % t.q
    /\ \A x \in E2(t) :
          (x * x * x + t.bTwist - (l * x + c) * (l * x + c)) % t.q
              = ((x - P.X) * (x - Q.X) * (x - R.X)) % t.q

CurveAdd(t, P, Q) ==
    IF P = Infinity THEN Q
    ELSE IF Q = Infinity THEN P
    ELSE IF P.X = Q.X /\ (P.Y + Q.Y) % t.q = 0 THEN Infinity
    ELSE CHOOSE R \in g2AffP(t) :
            \E l \in E2(t), c \in E2(t) : MeetsAt(t, l, c, P, Q, R)

\* the sum exists and is the only one
CurveAddDefined(t, P, Q) ==
    \/ P = Infinity
    \/ Q = Infinity
    \/ P.X = Q.X /\ (P.Y + Q.Y) % t.q = 0
    \/ Cardinality({R \in g2AffP(t) :
            \E l \in E2(t), c \in E2(t) : MeetsAt(t, l, c, P, Q, R)}) = 1

LineForm(t, l, p1) == l.R1 = (l.R0 * p1.X - p1.Y) % t.q

\* the point doubleAndAddStep adds or subtracts
SignedP2 == IF cop = "doubleAndAddStep isSub" THEN CurveNeg(twist, g2p2) ELSE g2p2

\* C24: for points of the curve and non-zero denominators, doubleStep(p1)
\* returns 2*p1, addStep(p1, p2) returns p1 + p2, and doubleAndAddStep(p1,
\* p2, isSub) returns 2*p1 + p2, or 2*p1 - p2 when isSub, which is also
\* (p1 + p2) + p1, or (p1 - p2) + p1; every line returned is (slope,
\* slope * x1 - y1), and the first line of doubleAndAddStep(p1, p2, false)
\* is the line of addStep(p1, p2).
C24_StepsFollowGroupLaw ==
    /\ (cop = "doubleStep" /\ OnCurve(twist, g2p1) /\ g2p1.Y # 0) =>
        /\ CurveAddDefined(twist, g2p1, g2p1)
        /\ cout.point = CurveAdd(twist, g2p1, g2p1)
        /\ LineForm(twist, cout.line, g2p1)
    /\ (cop = "addStep" /\ OnCurve(twist, g2p1) /\ OnCurve(twist, g2p2) /\ g2p1.X # g2p2.X) =>
        /\ CurveAddDefined(twist, g2p1, g2p2)
        /\ cout.point = CurveAdd(twist, g2p1, g2p2)
        /\ LineForm(twist, cout.line, g2p1)
    /\ (/\ cop \in {"doubleAndAddStep", "doubleAndAddStep isSub"}
        /\ OnCurve(twist, g2p1) /\ OnCurve(twist, g2p2)
        /\ g2p1.X # g2p2.X
        /\ doubleAndAddStep_x3(twist, g2p1, g2p2, cop = "doubleAndAddStep isSub", 0) # g2p1.X) =>
        /\ CurveAddDefined(twist, g2p1, g2p1)
        /\ CurveAddDefined(twist, CurveAdd(twist, g2p1, g2p1), SignedP2)
        /\ cout.point = CurveAdd(twist, CurveAdd(twist, g2p1, g2p1), SignedP2)
        /\ CurveAddDefined(twist, g2p1, SignedP2)
        /\ CurveAddDefined(twist, CurveAdd(twist, g2p1, SignedP2), g2p1)
        /\ cout.point = CurveAdd(twist, CurveAdd(twist, g2p1, SignedP2), g2p1)
        /\ LineForm(twist, cout.line, g2p1)
        /\ LineForm(twist, cout.line2, g2p1)
        /\ cop = "doubleAndAddStep" => cout.line = addStep(twist, g2p1, g2p2, 0).line

\* doubleAndAddStep has subtracted a point of the curve from the double of
\* another, neither of order two
C24_Witness ==
    /\ cop = "doubleAndAddStep isSub"
    /\ OnCurve(twist, g2p1) /\ OnCurve(twist, g2p2)
    /\ g2p1.X # g2p2.X /\ g2p1.Y # 0 /\ g2p2.Y # 0
    /\ doubleAndAddStep_x3(twist, g2p1, g2p2, TRUE, 0) # g2p1.X
    /\ cout.point = CurveAdd(twist, CurveAdd(twist, g2p1, g2p1), CurveNeg(twist, g2p2))
    /\ cout.point # g2p1 /\ cout.point # g2p2


\* the operations of the name given among those the last call emitted
Emitted(name) == {j \in 1..Len(out.trace) : out.trace[j] = name}

\* C25: a call of Pair that returns no error runs the final exponentiation
\* once, as the last operation: the unsafe one exactly when len(P) = 1, the
\* safe one for every len(P) >= 2, so that the product of two or more
\* pairings never goes through the unsafe variant.
C25_UnsafeOnlyForOnePair ==
    (pop = "Pair" /\ out.err = <<>>) =>
        /\ Len(pP) >= 1
        /\ Cardinality(Emitted("finalExponentiation(unsafe)")
                        \cup Emitted("finalExponentiation(safe)")) = 1
        /\ Emitted("finalExponentiation(unsafe)") # {} <=> Len(pP) = 1
        /\ Len(pP) >= 2 =>
            /\ Emitted("finalExponentiation(safe)") = {Len(out.trace)}
            /\ Emitted("finalExponentiation(unsafe)") = {}

\* Pair on two pairs has run the safe final exponentiation
C25_Witness ==
    /\ pop = "Pair" /\ out.err = <<>>
    /\ Len(pP) = 2 /\ Len(pQ) = 2
    /\ out.trace[Len(out.trace)] = "finalExponentiation(safe)"


(***************************************************************************)
(* The subgroup test on the twist.  The group of the points is a stand-in: *)
(* the points (X, Y) over the field of q elements, added coordinate by     *)
(* coordinate, with (0,0) the neutral element; psi is a linear map on it,  *)
(* the seed x0 a scalar, and phi is -psi^2.  The equation of the twist is  *)
(* a condition of its own on the coordinates.                              *)
(***************************************************************************)
PsiMaps == {<<0, 1, 1, 0>>, <<0, 1, 2, 1>>, <<2, 1, 0, 3>>}

G2Params ==
    {[t |-> t, x0 |-> x, psi |-> A] :
        t \in {[q |-> 5, bTwist |-> 1]}, x \in {2, 3}, A \in PsiMaps}

g2add(par, p, r) == [X |-> (p.X + r.X) % par.t.q, Y |-> (p.Y + r.Y) % par.t.q]
g2neg(par, p) == [X |-> (0 - p.X) % par.t.q, Y |-> (0 - p.Y) % par.t.q]
g2sub(par, p, r) == g2add(par, p, g2neg(par, r))
g2double(par, p) == g2add(par, p, p)
scalarMulBySeed(par, p) ==
    [X |-> (par.x0 * p.X) % par.t.q, Y |-> (par.x0 * p.Y) % par.t.q]
psi(par, p) ==
    [X |-> (par.psi[1] * p.X + par.psi[2] * p.Y) % par.t.q,
     Y |-> (par.psi[3] * p.X + par.psi[4] * p.Y) % par.t.q]
phi(par, p) == g2neg(par, psi(par, psi(par, p)))
g2IsEqual(p, r) == IF p = r THEN 1 ELSE 0

\* computeG2ShortVector with the operands of the first subtraction exchanged
computeG2ShortVector_Swapped(par, Q) ==
    LET xQ == scalarMulBySeed(par, Q)
        psixQ == psi(par, xQ)
        psi2xQ == phi(par, xQ)
        psi3xxQ == psi(par, g2double(par, psi2xQ))
    IN  g2sub(par, g2sub(par, g2sub(par, psi3xxQ, psi2xQ), psixQ), xQ)

computeG2ShortVector(par, Q) ==
    LET xQ == scalarMulBySeed(par, Q)
        psixQ == psi(par, xQ)
        psi2xQ == phi(par, xQ)
        psi3xxQ == psi(par, g2double(par, psi2xQ))
    IN  g2sub(par, g2sub(par, g2sub(par, psi2xQ, psi3xxQ), psixQ), xQ)

AssertIsOnG2(par, Q) ==
    [point |-> computeG2ShortVector(par, Q),
     val |-> 0,
     sat |-> AssertIsOnTwist(par.t, Q).sat /\ Q = computeG2ShortVector(par, Q),
     ops |-> <<"AssertIsOnTwist", "computeG2ShortVector", "AssertIsEqual">>]

IsOnG2(par, Q) ==
    LET isOnCurve == IsOnTwist(par.t, Q).val
        isInSubgroup == g2IsEqual(Q, computeG2ShortVector(par, Q))
    IN  [point |-> computeG2ShortVector(par, Q),
         val |-> apiAnd(isOnCurve, isInSubgroup),
         sat |-> TRUE,
         ops |-> <<"IsOnTwist", "computeG2ShortVector", "IsEqual", "And">>]

InitG2 ==
    /\ FieldIdle
    /\ PairingIdle
    /\ ExpIdle
    /\ CurveIdle
    /\ GenIdle
    /\ SchemaIdle
    /\ MillerIdle
    /\ FirstIdle
    /\ HintIdle
    /\ g2params \in G2Params
    /\ g2Q \in g2AffP(g2params.t)
    /\ g2op = ""
    /\ g2out = <<>>

notG2 ==
    <<fieldVars, pairingVars, expVars, curveVars, genVars, schemaVars, millerVars,
      firstVars, hintVars>>

CallComputeG2ShortVector ==
    /\ g2out' = [point |-> computeG2ShortVector(g2params, g2Q),
                 val |-> 0, sat |-> TRUE, ops |-> <<"computeG2ShortVector">>]
    /\ g2op' = "computeG2ShortVector"
    /\ UNCHANGED <<g2params, g2Q, notG2>>

CallAssertIsOnG2 ==
    /\ g2out' = AssertIsOnG2(g2params, g2Q)
    /\ g2op' = "AssertIsOnG2"
    /\ UNCHANGED <<g2params, g2Q, notG2>>

CallIsOnG2 ==
    /\ g2out' = IsOnG2(g2params, g2Q)
    /\ g2op' = "IsOnG2"
    /\ UNCHANGED <<g2params, g2Q, notG2>>

NextG2 ==
    \/ CallComputeG2ShortVector
    \/ CallAssertIsOnG2
    \/ CallIsOnG2

SpecG2 == InitG2 /\ [][NextG2]_vars

\* n times the point p
RECURSIVE Times(_, _, _)
Times(par, n, p) == IF n = 0 THEN [X |-> 0, Y |-> 0] ELSE g2add(par, p, Times(par, n - 1, p))

\* psi applied n times
RECURSIVE PsiPower(_, _, _)
PsiPower(par, n, p) == IF n = 0 THEN p ELSE psi(par, PsiPower(par, n - 1, p))

\* psi^3([2*x0]Q) - psi^2([x0]Q) - psi([x0]Q) - [x0]Q
ShortVector(par, Q) ==
    g2add(par, PsiPower(par, 3, Times(par, 2 * par.x0, Q)),
        g2neg(par, g2add(par, PsiPower(par, 2, Times(par, par.x0, Q)),
                     g2add(par, PsiPower(par, 1, Times(par, par.x0, Q)),
                           Times(par, par.x0, Q)))))

\* C26: computeG2ShortVector(Q) returns psi^3([2*x0]Q) - psi^2([x0]Q) -
\* psi([x0]Q) - [x0]Q, phi being -psi^2; AssertIsOnG2(Q) is satisfiable
\* exactly when Q is on the twist and equal to that combination, and
\* IsOnG2(Q) returns 1 exactly then, and 0 otherwise.
C26_ShortVectorTest ==
    /\ g2op = "computeG2ShortVector" => g2out.point = ShortVector(g2params, g2Q)
    /\ g2op = "AssertIsOnG2" =>
        (g2out.sat <=> OnTwist(g2params.t, g2Q) /\ g2Q = ShortVector(g2params, g2Q))
    /\ g2op = "IsOnG2" =>
        /\ g2out.val \in {0, 1}
        /\ g2out.val = 1 <=> OnTwist(g2params.t, g2Q) /\ g2Q = ShortVector(g2params, g2Q)

\* a point of the twist other than (0,0) has passed the test
C26_Witness ==
    /\ g2op = "IsOnG2"
    /\ g2Q # [X |-> 0, Y |-> 0]
    /\ g2out.val = 1
    /\ g2out.point = g2Q


\* 1 when every limb is zero, 0 otherwise
AllZero(limbs) == IF \A i \in 1..Len(limbs) : limbs[i] = 0 THEN 1 ELSE 0

\* the sum of the limbs as an integer
RECURSIVE IntegerSum(_, _)
IntegerSum(limbs, i) ==
    IF i > Len(limbs) THEN 0 ELSE limbs[i] + IntegerSum(limbs, i + 1)

\* C27: in IsZero, once the element is reduced, every limb is below
\* 2^bitsPerLimb; whenever (number of limbs - 1) <= maxOverflow the sum of
\* the limbs is below the native modulus, so the zero test of the sum is the
\* all-limbs-zero indicator, as the limb-wise product of zero tests is; res0
\* is that indicator on both branches, the product being taken whenever
\* (number of limbs - 1) > maxOverflow; and the value returned is res0 or
\* the limb-wise equality with the limbs of the modulus.  The bound on the
\* sum holds for every width b, number of limbs n and native bit length N
\* with n - 1 <= N - 2 - b.
C27_ZeroTestsAgree ==
    /\ (op = "IsZero" /\ eff.panic = "" /\ ~isStrictZero(e)) =>
        /\ \A i \in 1..Len(reduced.limbs) : reduced.limbs[i] < Pow2(BitsPerLimb(fp))
        /\ Len(reduced.limbs) - 1 <= maxOverflow(fp) =>
            /\ IntegerSum(reduced.limbs, 1) < NativeModulus
            /\ apiIsZero(LimbSum(reduced.limbs, 1)) = AllZero(reduced.limbs)
        /\ Len(reduced.limbs) - 1 > maxOverflow(fp) =>
            IsZeroRes0(fp, reduced) = LimbsAllZero(reduced.limbs, 1)
        /\ LimbsAllZero(reduced.limbs, 1) = AllZero(reduced.limbs)
        /\ IsZeroRes0(fp, reduced) = AllZero(reduced.limbs)
        /\ ret = <<apiOr(AllZero(reduced.limbs),
                         IF \A i \in 1..Len(reduced.limbs) :
                                reduced.limbs[i] = ModulusElement(fp).limbs[i]
                         THEN 1 ELSE 0)>>
    /\ \A b \in 1..4, n \in 1..6, N \in 2..12 :
        n - 1 <= N - 2 - b => n * (Pow2(b) - 1) < Pow2(N - 1)

\* the sum is taken, of limbs that are those of the modulus, and IsZero
\* returns 1 for an element that is not reduced
C27_Witness ==
    /\ op = "IsZero" /\ eff.panic = ""
    /\ ~e.const /\ Value(fp, e) = Modulus(fp)
    /\ Len(reduced.limbs) >= 2
    /\ Len(reduced.limbs) - 1 <= maxOverflow(fp)
    /\ reduced.limbs = ModulusElement(fp).limbs
    /\ IntegerSum(reduced.limbs, 1) = 2
    /\ ret = <<1>>


\* C28: AssertIsLessOrEqual(e, a) aborts with "inputs must have 0 overflow"
\* whenever e.overflow + a.overflow > 0, and has then emitted nothing: no
\* range check, no bit decomposition, no comparison, no assertion.
\* AssertIsInRange on an element that is not marked modReduced and has
\* overflow aborts so, and leaves the element as it was, not marked.
C28_OverflowAborts ==
    /\ (op = "AssertIsLessOrEqual" /\ e.overflow + arg.overflow > 0) =>
            eff = Panic("inputs must have 0 overflow")
    /\ (op = "AssertIsInRange" /\ ~e0.modReduced /\ e0.overflow > 0) =>
        /\ eff = Panic("inputs must have 0 overflow")
        /\ e = e0
        /\ ~e.modReduced
        /\ nRangeCmp = 0

\* AssertIsLessOrEqual has aborted on a second operand with overflow
C28_Witness ==
    /\ op = "AssertIsLessOrEqual"
    /\ e.overflow = 0 /\ arg.overflow > 0
    /\ eff.panic = "inputs must have 0 overflow"

\* AssertIsInRange has aborted on an element with overflow
C28_WitnessInRange ==
    /\ op = "AssertIsInRange" /\ nRange = 1
    /\ ~e0.const /\ e0.overflow > 0 /\ ~e0.modReduced
    /\ eff.panic = "inputs must have 0 overflow"
    /\ ~e.modReduced


\* C29: FinalExponentiation and FinalExponentiationUnsafe leave the element
\* the caller passes as it was: after the calls every coordinate of it holds
\* the value it held before, also when the element is degenerate (C1 = 0).
C29_InputUnchanged ==
    /\ gt = gt0
    /\ feSafe.called => feSafe.after = feSafe.input
    /\ feUnsafe.called => feUnsafe.after = feUnsafe.input


\* every limb is below 2^(BitsPerLimb + overflow)
WithinWidth(f, a) ==
    \A i \in 1..Len(a.limbs) : a.limbs[i] < Pow2(BitsPerLimb(f) + a.overflow)

\* every limb is at most 2^overflow * (2^BitsPerLimb - 1), as the sum of
\* 2^overflow limbs of BitsPerLimb bits is
WithinSum(f, a) ==
    \A i \in 1..Len(a.limbs) :
        a.limbs[i] <= Pow2(a.overflow) * (Pow2(BitsPerLimb(f)) - 1)

\* C30 as the specification states it: for every element that is not a
\* constant and whose limbs are each below 2^(bitsPerLimb + overflow), the
\* decomposition of ToBits is satisfiable and the bits returned have the
\* integer value of the element.
C30_EveryElementDecomposes ==
    (op = "ToBits" /\ eff.panic = "" /\ ~e.const /\ WithinWidth(fp, e))
    => /\ eff.sat
       /\ BitsValue(ret) = Value(fp, e)

\* C30 as the code has it: ToBits preserves the integer value whenever its
\* decomposition is satisfiable, and it is satisfiable for every element
\* that is not a constant and whose limbs are each at most 2^overflow *
\* (2^bitsPerLimb - 1) (a witness being within the widths it is checked
\* to), the carry of each limb being added to the next and the carry of
\* the last limb forming the top bits; for overflow 0 the bits of each limb
\* are that limb's bitsPerLimb bits, and FromBits(ToBits(a)) has the limbs
\* of a.
C30_ToBitsValue ==
    /\ (op = "ToBits" /\ eff.panic = "" /\ ~e.const) =>
        /\ (WithinSum(fp, e) /\ (e.internal \/ WellFormed(fp, e))) => eff.sat
        /\ eff.sat => BitsValue(ret) = Value(fp, e)
        /\ (e.overflow = 0 /\ WithinSum(fp, e)) =>
            \A i \in 1..Len(e.limbs) : \A j \in 1..BitsPerLimb(fp) :
                ret[(i - 1) * BitsPerLimb(fp) + j] = (e.limbs[i] \div Pow2(j - 1)) % 2
    /\ (op = "FromBits" /\ bitsFrom = "ToBits" /\ ~e.const
            /\ e.overflow = 0 /\ WithinSum(fp, e)) =>
        /\ eff.panic = ""
        /\ retEl.limbs = e.limbs
        /\ retEl.overflow = 0

\* two limbs at the bound, the carry of the first added to the second
C30_Witness ==
    /\ op = "ToBits" /\ eff.panic = "" /\ eff.sat
    /\ ~e.const /\ e.overflow = 1 /\ Len(e.limbs) = 2
    /\ e.limbs[1] = 2 * (Pow2(BitsPerLimb(fp)) - 1)
    /\ e.limbs[2] = 2 * (Pow2(BitsPerLimb(fp)) - 1)
    /\ ret[Len(ret)] = 1
    /\ BitsValue(ret) = Value(fp, e)

\* FromBits has given back the limbs of an element of two limbs
C30_WitnessRoundTrip ==
    /\ op = "FromBits" /\ bitsFrom = "ToBits"
    /\ ~e.const /\ e.overflow = 0 /\ Len(e.limbs) = 2
    /\ e.limbs[1] # 0 /\ e.limbs[2] # 0
    /\ retEl.limbs = e.limbs

====
